---- MODULE Spec2Model ----
(***************************************************************************)
(* A model of the agentic control loop of vladgurgov/Andrey:               *)
(*   - andrey.agent.AgentLoop (run, _run_step, _execute_tool, ...),        *)
(*   - andrey.vision.ConversationClient (the bounded conversation),        *)
(*   - andrey.device.DeviceManager (execute_action, clamping),             *)
(*   - mobile_agent.agent.MobileAgent.execute_instruction,                 *)
(*   - mobile_agent.vision_analyzer.VisionAnalyzer (grid arithmetic).      *)
(* Frames are abstracted to the value of their _screenshot_hash; texts are *)
(* abstracted to tags that keep the parts the loop decides on.             *)
(***************************************************************************)
EXTENDS Integers, Sequences, FiniteSets, TLC

VARIABLES
    pc,                   \* position of AgentLoop.run
    step,                 \* AgentLoop._step
    consecutive_errors,   \* AgentLoop._consecutive_errors
    no_change_count,      \* AgentLoop._no_change_count
    last_screenshot_hash, \* AgentLoop._last_screenshot_hash: <<>> is None, <<h>> a hash
    running,              \* AgentLoop._running
    elements,             \* AgentLoop._elements
    last_response,        \* AgentLoop._last_response
    batch_idx,            \* index of the tool call the for loop of _run_step is at
    tool_results,         \* the local list tool_results of _run_step
    messages,             \* ConversationClient._messages
    turn_count,           \* ConversationClient._turn_count
    planner_calls,        \* requests sent to the planner so far
    next_id,              \* the next tool_use id the planner will issue
    last_request,         \* the messages of the last request sent to the planner
    dev_count,            \* device input actions (tap, swipe, long press, key) sent
    dev_last,             \* the last device input action sent (<<>>: none yet)
    dev_calls,            \* tool_use ids of the current response a device input was sent for
    exc,                  \* the exception that left run(), "none" if none
    handled,              \* how the last pass of the while loop of run() ended
    scenario,             \* how planner and device behave in this session
    max_steps,            \* config.loop.max_steps
    st_pc,                \* position of _capture_stable_screenshot
    st_timeout,           \* stabilization_timeout, in stabilization intervals
    st_elapsed,           \* time.monotonic() - start, in stabilization intervals
    st_prev,              \* prev_hash: <<>> is None
    st_stable,            \* stable_count
    st_hist,              \* the hashes of the frames captured so far, in order
    st_ret,               \* the frame returned: <<>> before the return
    m_pc,                 \* position of MobileAgent.execute_instruction
    m_max_steps,          \* its local max_steps
    m_step_count,         \* its local step_count
    m_action,             \* its local action: the action of the last plan
    m_last_action,        \* its local last_action: <<>> is None
    m_actions_taken,      \* MobileAgent.actions_taken
    m_is_running,         \* MobileAgent.is_running
    m_dev_count,          \* device inputs the ADB controller was asked for
    m_summary,            \* the summary returned: <<>> before the return
    fn,                   \* the pure function under test
    arg,                  \* its arguments
    ret                   \* its result: <<>> before the call

loopVars == <<pc, step, consecutive_errors, no_change_count, last_screenshot_hash,
              running, elements, last_response, batch_idx, tool_results, exc, handled>>
convVars == <<messages, turn_count, planner_calls, next_id, last_request>>
devVars  == <<dev_count, dev_last, dev_calls>>
envVars  == <<scenario, max_steps>>
stabVars == <<st_pc, st_timeout, st_elapsed, st_prev, st_stable, st_hist, st_ret>>
mobVars  == <<m_pc, m_max_steps, m_step_count, m_action, m_last_action, m_actions_taken,
              m_is_running, m_dev_count, m_summary>>
fnVars   == <<fn, arg, ret>>

-----------------------------------------------------------------------------
(* Bounds of the model and configuration values.                           *)

MaxSteps == 2         \* config.loop.max_steps of a session with a free planner
ErrorThreshold == 2   \* config.loop.error_threshold of the modelled session
MaxImages == 1        \* config.conversation.max_images of the modelled session
MaxBatch == 2         \* most tool calls in one planner response
MaxCalls == 3         \* most planner requests in a session with a free planner
NumFrames == 2        \* distinct frame hashes the device can show
ScreenW == 4          \* screen_info.width
ScreenH == 4          \* screen_info.height

TrimMinLen == 4       \* _trim_conversation returns early up to this length
EscalateAt == 3       \* no-change count from which the escalation text is added

Frames == 1..NumFrames

Min(a, b) == IF a < b THEN a ELSE b
Max(a, b) == IF a > b THEN a ELSE b

-----------------------------------------------------------------------------
(* OmniParser: elements of a frame.  _run_detection numbers the elements   *)
(* of a frame 0..n-1; frame h shows h+1 elements, element i centred at     *)
(* (i+1, i+1).  A failed or unavailable parser degrades to no elements.    *)

ElementsOf(h) == [i \in 1..(h + 1) |-> [id |-> i - 1, center_x |-> i, center_y |-> i]]

ParseOutcomes(h) == IF scenario = "free" THEN {ElementsOf(h), <<>>} ELSE {ElementsOf(h)}

ElementIds(elems) == [i \in 1..Len(elems) |-> elems[i].id]

-----------------------------------------------------------------------------
(* ConversationClient: content blocks and turns.                           *)

ImageBlock == [type |-> "image"]
TextBlock(t) == [type |-> "text", text |-> t]
ToolUseBlock(id) == [type |-> "tool_use", id |-> id]
ToolResultBlock(id, content, err) ==
    [type |-> "tool_result", tool_use_id |-> id, content |-> content, is_error |-> err]
Turn(role, content) == [role |-> role, content |-> content]

HasImageBlock(content) == \E i \in 1..Len(content) : content[i].type = "image"

\* _message_has_image
MessageHasImage(msg) ==
    \E i \in 1..Len(msg.content) :
        \/ msg.content[i].type = "image"
        \/ /\ msg.content[i].type = "tool_result"
           /\ HasImageBlock(msg.content[i].content)

StripInner(content) ==
    [j \in 1..Len(content) |->
        IF content[j].type = "image" THEN TextBlock("[Screenshot removed]")
        ELSE content[j]]

StripBlock(b) ==
    IF b.type = "image" THEN TextBlock("[Screenshot removed to save context]")
    ELSE IF b.type = "tool_result"
         THEN ToolResultBlock(b.tool_use_id, StripInner(b.content), b.is_error)
         ELSE b

\* _strip_images
StripImages(msg) ==
    Turn(msg.role, [i \in 1..Len(msg.content) |-> StripBlock(msg.content[i])])

\* the number of image-bearing turns among the first n turns
RECURSIVE ImageTurnsUpTo(_, _)
ImageTurnsUpTo(msgs, n) ==
    IF n = 0 THEN 0
    ELSE ImageTurnsUpTo(msgs, n - 1) + (IF MessageHasImage(msgs[n]) THEN 1 ELSE 0)

ImageTurns(msgs) == ImageTurnsUpTo(msgs, Len(msgs))

\* _trim_conversation: strip the oldest image-bearing turns while more than
\* max_images of them are left; nothing at all up to TrimMinLen turns.
TrimConversation(msgs, max_images) ==
    IF Len(msgs) <= TrimMinLen THEN msgs
    ELSE LET excess == ImageTurns(msgs) - max_images
         IN  [i \in 1..Len(msgs) |->
                IF MessageHasImage(msgs[i]) /\ ImageTurnsUpTo(msgs, i) <= excess
                THEN StripImages(msgs[i])
                ELSE msgs[i]]

\* the user turn send_screenshot appends
ScreenshotTurn == Turn("user", <<ImageBlock, TextBlock("screenshot")>>)

\* a faulty variant that loses the id of the call
ResultBlockWithoutId(r) ==
    ToolResultBlock(0,
                    (IF r.image THEN <<ImageBlock>> ELSE <<>>) \o <<TextBlock(r.text)>>,
                    r.is_error)

\* the tool_result block submit_tool_results builds for one result dict
ResultBlock(r) ==
    ToolResultBlock(r.tool_use_id,
                    (IF r.image THEN <<ImageBlock>> ELSE <<>>) \o <<TextBlock(r.text)>>,
                    r.is_error)

\* the user turn submit_tool_results appends
ResultsTurn(results) ==
    Turn("user", [i \in 1..Len(results) |-> ResultBlock(results[i])])

\* the assistant turn _call_api appends for a planner response
AssistantTurn(resp) ==
    Turn("assistant",
         (IF resp.text # "" THEN <<TextBlock("assistant")>> ELSE <<>>)
         \o [i \in 1..Len(resp.tool_calls) |-> ToolUseBlock(resp.tool_calls[i].tool_use_id)])

\* reset(summary): summary = FALSE is reset()
ResetMessages(summary) ==
    IF summary
    THEN <<Turn("user", <<TextBlock("summary")>>),
           Turn("assistant", <<TextBlock("understood")>>)>>
    ELSE <<>>

-----------------------------------------------------------------------------
(* Tool calls and AgentLoop._execute_tool.                                 *)

AbsentId == 9         \* an element id no frame of the model shows

ToolCall(id, name, args, key) ==
    [tool_use_id |-> id, name |-> name, args |-> args, key |-> key]

\* what the planner may ask for: name, integer inputs, key
ToolAlphabet ==
    {  <<"tap_element", <<1>>, "">>, <<"tap_element", <<2>>, "">>,
       <<"tap_element", <<AbsentId>>, "">>,
       <<"tap", <<1, 2>>, "">>, <<"tap", <<ScreenW, ScreenH>>, "">>,
       <<"tap", <<0 - 1, 1>>, "">>,
       <<"swipe", <<1, 1, 2, ScreenH + 1>>, "">>,
       <<"long_press", <<2, 2>>, "">>,
       <<"press_key", <<>>, "ENTER">>, <<"press_key", <<>>, "MENU">>,
       <<"wait", <<>>, "">>, <<"game_over", <<>>, "">>, <<"scroll", <<>>, "">>  }

\* GameAction.coordinates_non_negative
CoordinatesNonNegative(args) == \A i \in 1..Len(args) : args[i] >= 0

\* clamp of DeviceManager._validate_coordinates
Clamp(val, max_val) == Max(0, Min(val, max_val))

\* DeviceManager._validate_coordinates on (x, y) or (x, y, x2, y2)
ValidateCoordinates(args) ==
    [i \in 1..Len(args) |-> Clamp(args[i], IF i % 2 = 1 THEN ScreenW ELSE ScreenH)]

DeviceInput(op, args, key, id) == [op |-> op, args |-> args, key |-> key, call |-> id]

\* DeviceManager.execute_action: the input sent to the device for a GameAction
ExecuteAction(op, args, id) ==
    LET a == ValidateCoordinates(args)
    IN  IF op = "long_press"
        THEN DeviceInput("swipe", <<a[1], a[2], a[1], a[2]>>, "", id)
        ELSE DeviceInput(op, a, "", id)

\* key_map.get(key, "KEYCODE_BACK") of _execute_tool
KeyCode(key) ==
    IF key = "BACK" THEN "KEYCODE_BACK"
    ELSE IF key = "HOME" THEN "KEYCODE_HOME"
    ELSE IF key = "ENTER" THEN "KEYCODE_ENTER"
    ELSE "KEYCODE_BACK"

\* a result dict of _execute_tool / _run_step
Result(id, text, ids, key, err, stop) ==
    [tool_use_id |-> id, text |-> text, ids |-> ids, key |-> key, is_error |-> err,
     should_stop |-> stop, image |-> FALSE, warn |-> FALSE, escalate |-> FALSE]

\* the indices of the elements with the given id
Matching(elems, element_id) == {i \in 1..Len(elems) : elems[i].id = element_id}

\* a faulty variant that falls back to the first element of the list
FindElementOrFirst(elems, element_id) ==
    LET m == Matching(elems, element_id)
    IN  IF elems = <<>> THEN <<>>
        ELSE IF m = {} THEN <<elems[1]>>
        ELSE <<elems[CHOOSE i \in m : \A j \in m : i <= j]>>

\* for el in elements: if el.id == element_id: element = el; break
FindElement(elems, element_id) ==
    LET m == Matching(elems, element_id)
    IN  IF m = {} THEN <<>>
        ELSE <<elems[CHOOSE i \in m : \A j \in m : i <= j]>>

Outcome(raises, dev, result) == [raises |-> raises, dev |-> dev, result |-> result]

\* a faulty variant that taps the origin for an id it cannot resolve
TapElementAtOrigin(tc, elems) ==
    LET found == FindElement(elems, tc.args[1])
        at == IF found = <<>> THEN <<0, 0>> ELSE <<found[1].center_x, found[1].center_y>>
    IN  Outcome("none", <<ExecuteAction("tap", at, tc.tool_use_id)>>,
                Result(tc.tool_use_id, "tapped_element", <<>>, "", FALSE, FALSE))

\* a faulty variant that raises for an id it cannot resolve
TapElementRaising(tc, elems) ==
    LET found == FindElement(elems, tc.args[1])
    IN  IF found = <<>>
        THEN Outcome("KeyError", <<>>, Result(tc.tool_use_id, "", <<>>, "", FALSE, FALSE))
        ELSE Outcome("none",
                     <<ExecuteAction("tap", <<found[1].center_x, found[1].center_y>>,
                                     tc.tool_use_id)>>,
                     Result(tc.tool_use_id, "tapped_element", <<>>, "", FALSE, FALSE))

\* the tap_element branch of _execute_tool
TapElement(tc, elems) ==
    LET found == FindElement(elems, tc.args[1])
    IN  IF found = <<>>
        THEN Outcome("none", <<>>,
                     Result(tc.tool_use_id, "not_found", ElementIds(elems), "", TRUE, FALSE))
        ELSE Outcome("none",
                     <<ExecuteAction("tap", <<found[1].center_x, found[1].center_y>>,
                                     tc.tool_use_id)>>,
                     Result(tc.tool_use_id, "tapped_element", <<>>, "", FALSE, FALSE))

\* a tap, swipe or long_press branch of _execute_tool
PointerTool(tc) ==
    IF ~CoordinatesNonNegative(tc.args)
    THEN Outcome("ValidationError", <<>>,
                 Result(tc.tool_use_id, "", <<>>, "", FALSE, FALSE))
    ELSE Outcome("none", <<ExecuteAction(tc.name, tc.args, tc.tool_use_id)>>,
                 Result(tc.tool_use_id, tc.name, <<>>, "", FALSE, FALSE))

\* _execute_tool: what it raises, the device input it sends, the dict it returns
ExecuteTool(tc, elems) ==
    IF tc.name = "tap_element" THEN TapElement(tc, elems)
    ELSE IF tc.name \in {"tap", "swipe", "long_press"} THEN PointerTool(tc)
    ELSE IF tc.name = "press_key"
    THEN Outcome("none", <<DeviceInput("key", <<>>, KeyCode(tc.key), tc.tool_use_id)>>,
                 Result(tc.tool_use_id, "pressed", <<>>, tc.key, FALSE, FALSE))
    ELSE IF tc.name = "wait"
    THEN Outcome("none", <<>>, Result(tc.tool_use_id, "waited", <<>>, "", FALSE, FALSE))
    ELSE IF tc.name = "game_over"
    THEN Outcome("none", <<>>, Result(tc.tool_use_id, "game_over", <<>>, "", FALSE, TRUE))
    ELSE Outcome("none", <<>>, Result(tc.tool_use_id, "unknown_tool", <<>>, "", TRUE, FALSE))

\* the error result _run_step adds for a tool call the step limit cut off
StepLimitResult(tc) == Result(tc.tool_use_id, "step_limit", <<>>, "", TRUE, FALSE)

-----------------------------------------------------------------------------
(* The planner (external) and ConversationClient._call_api.                *)

Response(stop_reason, tool_calls, text) ==
    [stop_reason |-> stop_reason, tool_calls |-> tool_calls, text |-> text]

NoResponse == Response("", <<>>, "")

\* how many tool calls a response of the session's planner can hold
BatchSizes == IF scenario = "tools" THEN {1} ELSE 1..MaxBatch

\* the tool_use responses the planner can give, with fresh tool_use ids from id on
ToolResponses(id, alphabet) ==
    UNION { { Response("tool_use",
                       [i \in 1..n |-> ToolCall(id + i - 1, f[i][1], f[i][2], f[i][3])],
                       "")
              : f \in [1..n -> alphabet] }
            : n \in BatchSizes }

\* responses that end the turn without a tool call
TextResponses == {Response("end_turn", <<>>, "thinking"),
                  Response("end_turn", <<>>, "game over")}

\* responses cut off at max_tokens after a complete tool_use block
TruncatedResponses(id, alphabet) ==
    { Response("max_tokens", <<ToolCall(id, t[1], t[2], t[3])>>, "") : t \in alphabet }

FreeScenario == scenario = "free"

\* the tools of a session with faults: tap_element 1 (a device input, or a
\* resolution error when the parser found no elements) and the
\* terminal-declare; the "tools" session runs every tool
CoreAlphabet ==
    {t \in ToolAlphabet :
        \/ t[1] = "tap_element" /\ t[2][1] = 1
        \/ t[1] = "game_over"}

\* the tools the planner of the session uses
Alphabet ==
    IF FreeScenario THEN CoreAlphabet
    ELSE IF scenario = "tools" THEN ToolAlphabet
    ELSE IF scenario = "absent_only" THEN {<<"tap_element", <<AbsentId>>, "">>}
    ELSE {<<"tap", <<1, 2>>, "">>}

\* what a planner request can end in: a response, or an anthropic error
PlannerOutcomes ==
    IF FreeScenario
    THEN [kind : {"ok"}, resp : ToolResponses(next_id, Alphabet) \cup TextResponses]
         \cup [kind : {"rate_limit", "overflow", "api_error"}, resp : {NoResponse}]
    ELSE IF scenario = "truncated"
    THEN [kind : {"ok"}, resp : TruncatedResponses(next_id, Alphabet)]
    ELSE [kind : {"ok"}, resp : ToolResponses(next_id, Alphabet)]

\* the text of the VisionError _call_api raises for a failed request
VisionErrorMessage(out) ==
    IF out.kind = "rate_limit" THEN "Rate limited"
    ELSE IF out.kind = "overflow" THEN "Context overflow, conversation reset"
    ELSE IF out.kind = "api_error" THEN "API error"
    ELSE ""

\* a faulty variant that leaves the turns in place on a context overflow
TurnsKeptAfterFailure(out, trimmed) == trimmed

\* the turns a failed request leaves behind: reset() on a context overflow
TurnsAfterFailure(out, trimmed) ==
    IF out.kind = "overflow" THEN ResetMessages(FALSE) ELSE trimmed

\* _call_api after the caller appended user_turn and counted the turn
CallApi(user_turn, out) ==
    LET trimmed == TrimConversation(Append(messages, user_turn), MaxImages)
    IN  /\ scenario \in {"free", "truncated"} => planner_calls < MaxCalls
        /\ planner_calls' = planner_calls + 1
        /\ last_request' = trimmed
        /\ next_id' = next_id + Len(out.resp.tool_calls)
        /\ messages' = IF out.kind = "ok" THEN Append(trimmed, AssistantTurn(out.resp))
                       ELSE TurnsAfterFailure(out, trimmed)
        /\ turn_count' = IF out.kind = "overflow" THEN 0 ELSE turn_count + 1
        /\ dev_calls' = IF out.kind = "ok" THEN <<>> ELSE dev_calls

-----------------------------------------------------------------------------
(* AgentLoop.run.                                                          *)

\* run() is left by an exception (the finally block prints the summary)
Raise(e) == pc' = "raised" /\ exc' = e /\ handled' = handled

\* how a pass of the while loop ended: the exception its except clauses
\* caught ("ok" if none), for a DeviceError the answer of is_connected(),
\* and the text of a VisionError
Handled(kind, connected, message) ==
    [error |-> kind, connected |-> (kind # "DeviceError") \/ connected,
     message |-> message]

\* a faulty variant that never resets the counter
StepEndWithoutReset(kind, connected, message) ==
    LET ce == IF kind = "ok" THEN consecutive_errors ELSE consecutive_errors + 1
    IN  /\ consecutive_errors' = ce
        /\ pc' = IF (kind = "DeviceError" /\ ~connected) \/ ce >= ErrorThreshold
                 THEN "done" ELSE "loop"
        /\ exc' = exc
        /\ handled' = Handled(kind, connected, message)

\* the end of one pass of the while loop of run(): the except clauses and
\* the error-threshold check.  kind is "ok", "DeviceError" or "VisionError".
StepEnd(kind, connected, message) ==
    LET ce == IF kind = "ok" THEN 0 ELSE consecutive_errors + 1
    IN  /\ consecutive_errors' = ce
        /\ pc' = IF (kind = "DeviceError" /\ ~connected) \/ ce >= ErrorThreshold
                 THEN "done" ELSE "loop"
        /\ exc' = exc
        /\ handled' = Handled(kind, connected, message)

\* _capture_stable_screenshot as the loop sees it: a frame of the device,
\* or the DeviceError of DeviceManager.screenshot
CaptureOutcomes ==
    IF FreeScenario THEN [ok : {TRUE}, frame : Frames] \cup [ok : {FALSE}, frame : {1}]
    ELSE [ok : {TRUE}, frame : Frames]

VisionErrorOf(out) == out.kind # "ok"

\* run() up to the connection: DeviceManager.connect
Connect ==
    /\ pc = "start"
    /\ running' = TRUE
    /\ \/ /\ pc' = "initial"
          /\ exc' = exc /\ handled' = handled
       \/ /\ FreeScenario
          /\ Raise("DeviceError")
    /\ UNCHANGED <<step, consecutive_errors, no_change_count, last_screenshot_hash,
                   elements, last_response, batch_idx, tool_results>>
    /\ UNCHANGED <<convVars, devVars, envVars, stabVars, mobVars, fnVars>>

\* _send_initial_screenshot called from run(): nothing catches its errors
InitialObservation ==
    /\ pc = "initial"
    /\ \E cap \in CaptureOutcomes :
          IF ~cap.ok
          THEN /\ Raise("DeviceError")
               /\ UNCHANGED <<elements, last_response, convVars, dev_calls>>
          ELSE \E els \in ParseOutcomes(cap.frame), out \in PlannerOutcomes :
                 /\ elements' = els
                 /\ CallApi(ScreenshotTurn, out)
                 /\ IF VisionErrorOf(out)
                    THEN Raise("VisionError") /\ UNCHANGED last_response
                    ELSE /\ last_response' = out.resp
                         /\ pc' = "loop"
                         /\ exc' = exc /\ handled' = handled
    /\ UNCHANGED <<step, consecutive_errors, no_change_count, last_screenshot_hash,
                   running, batch_idx, tool_results>>
    /\ UNCHANGED <<dev_count, dev_last, envVars, stabVars, mobVars, fnVars>>

\* a faulty variant that goes on past the step budget
LoopConditionRunningOnly == running

\* while self._running and self._step < max_steps
LoopCondition == running /\ step < max_steps

\* the while condition is false: run() returns through the finally block
LoopExit ==
    /\ pc = "loop"
    /\ ~LoopCondition
    /\ pc' = "done"
    /\ UNCHANGED <<step, consecutive_errors, no_change_count, last_screenshot_hash,
                   running, elements, last_response, batch_idx, tool_results, exc, handled>>
    /\ UNCHANGED <<convVars, devVars, envVars, stabVars, mobVars, fnVars>>

\* a faulty variant that never takes a text for the end of the game
GameOverTextNever(text) == FALSE

\* "game over" in text_lower or "game ended" in text_lower
GameOverText(text) == text = "game over"

\* _run_step on a response without tool calls
RunStepText ==
    /\ pc = "loop"
    /\ LoopCondition
    /\ last_response.stop_reason # "tool_use"
    /\ IF GameOverText(last_response.text)
       THEN /\ running' = FALSE
            /\ StepEnd("ok", TRUE, "")
            /\ UNCHANGED <<elements, last_response, convVars, dev_calls>>
       ELSE /\ running' = running
            /\ \E cap \in CaptureOutcomes :
                 IF ~cap.ok
                 THEN /\ \E connected \in BOOLEAN : StepEnd("DeviceError", connected, "")
                      /\ UNCHANGED <<elements, last_response, convVars, dev_calls>>
                 ELSE \E els \in ParseOutcomes(cap.frame), out \in PlannerOutcomes :
                        /\ elements' = els
                        /\ CallApi(ScreenshotTurn, out)
                        /\ IF VisionErrorOf(out)
                           THEN StepEnd("VisionError", TRUE, VisionErrorMessage(out)) /\ UNCHANGED last_response
                           ELSE StepEnd("ok", TRUE, "") /\ last_response' = out.resp
    /\ UNCHANGED <<step, no_change_count, last_screenshot_hash, batch_idx, tool_results>>
    /\ UNCHANGED <<dev_count, dev_last, envVars, stabVars, mobVars, fnVars>>

\* _run_step on a tool_use response: enter the for loop over the tool calls
RunStepTools ==
    /\ pc = "loop"
    /\ LoopCondition
    /\ last_response.stop_reason = "tool_use"
    /\ pc' = "batch"
    /\ batch_idx' = 1
    /\ tool_results' = <<>>
    /\ UNCHANGED <<step, consecutive_errors, no_change_count, last_screenshot_hash,
                   running, elements, last_response, exc, handled>>
    /\ UNCHANGED <<convVars, devVars, envVars, stabVars, mobVars, fnVars>>

\* the device receives an input
SendToDevice(dev) ==
    /\ dev_count' = dev_count + 1
    /\ dev_last' = <<dev>>
    /\ dev_calls' = Append(dev_calls, dev.call)

\* the screen-change detection of _run_step on the result of a tool call
ChangeDetection(result, pre_hash, post_hash, count) ==
    IF pre_hash # <<>> /\ <<post_hash>> = pre_hash
    THEN [result EXCEPT !.warn = TRUE, !.escalate = (count + 1 >= EscalateAt)]
    ELSE result

\* a faulty variant that keeps the count when the hashes differ
NoChangeCountKept(pre_hash, post_hash, count) ==
    IF pre_hash # <<>> /\ <<post_hash>> = pre_hash THEN count + 1 ELSE count

\* self._no_change_count after the comparison of pre_hash and post_hash
NoChangeCount(pre_hash, post_hash, count) ==
    IF pre_hash # <<>> /\ <<post_hash>> = pre_hash THEN count + 1 ELSE 0

\* a faulty variant that does not count the terminal-declare
CountStepUnlessTerminal(s, tc) == IF tc.name = "game_over" THEN s ELSE s + 1

\* self._step += 1 at the top of each pass of the for loop
CountStep(s, tc) == s + 1

\* one pass of the for loop of _run_step over response.tool_calls
ProcessToolCall ==
    /\ pc = "batch"
    /\ LET tc == last_response.tool_calls[batch_idx]
           pre_hash == last_screenshot_hash
           ex == ExecuteTool(tc, elements)
       IN
       /\ step' = CountStep(step, tc)
       /\ \/ \* GameAction refuses the input: a ValidationError, caught nowhere
             /\ ex.raises # "none"
             /\ Raise(ex.raises)
             /\ UNCHANGED <<consecutive_errors, no_change_count, last_screenshot_hash,
                            running, elements, batch_idx, tool_results, devVars>>
          \/ \* the device input fails in adbutils: an AdbError, caught nowhere
             /\ FreeScenario
             /\ ex.raises = "none" /\ ex.dev # <<>>
             /\ Raise("AdbError")
             /\ UNCHANGED <<consecutive_errors, no_change_count, last_screenshot_hash,
                            running, elements, batch_idx, tool_results, devVars>>
          \/ /\ ex.raises = "none"
             /\ IF ex.dev # <<>> THEN SendToDevice(ex.dev[1]) ELSE UNCHANGED devVars
             /\ IF ex.result.should_stop
                THEN /\ running' = FALSE
                     /\ StepEnd("ok", TRUE, "")
                     /\ UNCHANGED <<no_change_count, last_screenshot_hash, elements,
                                    batch_idx, tool_results>>
                ELSE
                /\ running' = running
                /\ \E cap \in CaptureOutcomes :
                     IF ~cap.ok
                     THEN /\ \E connected \in BOOLEAN : StepEnd("DeviceError", connected, "")
                          /\ UNCHANGED <<no_change_count, last_screenshot_hash, elements,
                                         batch_idx, tool_results>>
                     ELSE \E els \in ParseOutcomes(cap.frame) :
                          LET res == ChangeDetection(ex.result, pre_hash, cap.frame,
                                                     no_change_count)
                          IN
                          /\ no_change_count' =
                                 NoChangeCount(pre_hash, cap.frame, no_change_count)
                          /\ last_screenshot_hash' = <<cap.frame>>
                          /\ elements' = els
                          /\ tool_results' = Append(tool_results, [res EXCEPT !.image = TRUE])
                          /\ IF step' >= max_steps \/ batch_idx = Len(last_response.tool_calls)
                             THEN pc' = "submit" /\ batch_idx' = batch_idx
                             ELSE pc' = "batch" /\ batch_idx' = batch_idx + 1
                          /\ UNCHANGED <<consecutive_errors, exc, handled>>
    /\ UNCHANGED <<last_response, convVars, envVars, stabVars, mobVars, fnVars>>

\* a faulty variant that submits the results of the executed calls only
BatchResultsExecutedOnly == tool_results

\* the results _run_step submits: those of the executed calls, then a
\* step-limit error for each call the step limit cut off
BatchResults ==
    IF step >= max_steps /\ Len(tool_results) < Len(last_response.tool_calls)
    THEN tool_results \o
         [i \in 1..(Len(last_response.tool_calls) - Len(tool_results)) |->
             StepLimitResult(last_response.tool_calls[Len(tool_results) + i])]
    ELSE tool_results

\* the end of _run_step: submit_tool_results
SubmitResults ==
    /\ pc = "submit"
    /\ \E out \in PlannerOutcomes :
         /\ CallApi(ResultsTurn(BatchResults), out)
         /\ IF VisionErrorOf(out)
            THEN StepEnd("VisionError", TRUE, VisionErrorMessage(out)) /\ UNCHANGED last_response
            ELSE StepEnd("ok", TRUE, "") /\ last_response' = out.resp
    /\ UNCHANGED <<step, no_change_count, last_screenshot_hash, running, elements,
                   batch_idx, tool_results>>
    /\ UNCHANGED <<dev_count, dev_last, envVars, stabVars, mobVars, fnVars>>

\* _handle_interrupt: SIGINT while run() is active
Interrupt ==
    /\ FreeScenario
    /\ pc \in {"initial", "loop", "batch", "submit"}
    /\ running
    /\ running' = FALSE
    /\ UNCHANGED <<pc, step, consecutive_errors, no_change_count, last_screenshot_hash,
                   elements, last_response, batch_idx, tool_results, exc, handled>>
    /\ UNCHANGED <<convVars, devVars, envVars, stabVars, mobVars, fnVars>>

vars == <<loopVars, convVars, devVars, envVars, stabVars, mobVars, fnVars>>

\* the sessions of the model: behaviour of planner and device, step budget
Sessions == {<<"free", MaxSteps>>, <<"tools", 1>>, <<"absent_only", MaxSteps>>,
             <<"steady", EscalateAt + 1>>, <<"truncated", MaxSteps>>}

\* AgentLoop.__init__ and ConversationClient.__init__
LoopInit(sessions) ==
    /\ pc = "start"
    /\ step = 0
    /\ consecutive_errors = 0
    /\ no_change_count = 0
    /\ last_screenshot_hash = <<>>
    /\ running = FALSE
    /\ elements = <<>>
    /\ last_response = NoResponse
    /\ batch_idx = 1
    /\ tool_results = <<>>
    /\ messages = <<>>
    /\ turn_count = 0
    /\ planner_calls = 0
    /\ next_id = 1
    /\ last_request = <<>>
    /\ dev_count = 0
    /\ dev_last = <<>>
    /\ dev_calls = <<>>
    /\ exc = "none"
    /\ handled = Handled("ok", TRUE, "")
    /\ \E s \in sessions : scenario = s[1] /\ max_steps = s[2]

\* no _capture_stable_screenshot is followed poll by poll
StabIdle ==
    /\ st_pc = "idle"
    /\ st_timeout = 0
    /\ st_elapsed = 0
    /\ st_prev = <<>>
    /\ st_stable = 0
    /\ st_hist = <<>>
    /\ st_ret = <<>>

\* no MobileAgent is running
MobileIdle ==
    /\ m_pc = "idle"
    /\ m_max_steps = 0
    /\ m_step_count = 0
    /\ m_action = ""
    /\ m_last_action = <<>>
    /\ m_actions_taken = <<>>
    /\ m_is_running = FALSE
    /\ m_dev_count = 0
    /\ m_summary = <<>>

\* no pure function is under test
FnIdle == fn = "" /\ arg = <<>> /\ ret = <<>>

Init == LoopInit(Sessions) /\ StabIdle /\ MobileIdle /\ FnIdle

Next ==
    \/ Connect
    \/ InitialObservation
    \/ LoopExit
    \/ RunStepText
    \/ RunStepTools
    \/ ProcessToolCall
    \/ SubmitResults
    \/ Interrupt

Spec == Init /\ [][Next]_vars

-----------------------------------------------------------------------------
(* Properties of AgentLoop.run and ConversationClient.                     *)

\* the tool_result blocks of a user turn that report an unresolved element id
ResolutionErrorsIn(turn) ==
    Cardinality({i \in 1..Len(turn.content) :
                    /\ turn.content[i].type = "tool_result"
                    /\ turn.content[i].is_error
                    /\ \E j \in 1..Len(turn.content[i].content) :
                          turn.content[i].content[j] = TextBlock("not_found")})

\* the resolution-error tool results recorded in the first n turns
RECURSIVE ResolutionErrors(_, _)
ResolutionErrors(msgs, n) ==
    IF n = 0 THEN 0 ELSE ResolutionErrors(msgs, n - 1) + ResolutionErrorsIn(msgs[n])

\* C2: with step budget N and a planner that only ever requests tap_element
\* with an id absent from the element list, the session never sends a device
\* input, and when it has ended it ended because the step budget is used up
\* (the stop flag is not set and the error threshold is not reached) with
\* exactly N resolution-error tool results recorded in the conversation.
C2_AbsentIdUsesBudgetWithoutDeviceInput ==
    scenario = "absent_only" =>
        /\ dev_count = 0 /\ dev_last = <<>>
        /\ pc # "raised"
        /\ pc = "done" =>
              /\ step = max_steps
              /\ running
              /\ consecutive_errors < ErrorThreshold
              /\ ResolutionErrors(messages, Len(messages)) = max_steps

\* C2 witness: such a session over, its budget of MaxSteps steps used
C2_Witness ==
    /\ scenario = "absent_only" /\ pc = "done"
    /\ max_steps = MaxSteps /\ step = MaxSteps
    /\ ResolutionErrors(messages, Len(messages)) = MaxSteps
    /\ dev_count = 0

\* C3 as stated: the stored turns alternate roles strictly, starting with a
\* user turn, whatever calls failed and were retried
C3_RolesAlternate ==
    \A i \in 1..Len(messages) :
        messages[i].role = IF i % 2 = 1 THEN "user" ELSE "assistant"

\* C5 as stated: every request sent to the planner holds at most max_images
\* image-bearing turns
C5_RequestWithinImageCap == ImageTurns(last_request) <= MaxImages

\* C6 as stated: no exception leaves AgentLoop.run
C6_RunNeverRaises == pc # "raised"

\* the tool call the for loop of _run_step is at
CurrentToolCall == last_response.tool_calls[batch_idx]

\* C7: a tap_element whose element_id matches no element of the current list
\* sends no device input, and the result it hands to the loop is an error
\* result (is_error true) that lists the ids of the current elements.
C7_UnresolvedIdIsErrorWithoutInput ==
    [][(/\ pc = "batch"
        /\ CurrentToolCall.name = "tap_element"
        /\ \A i \in 1..Len(elements) : elements[i].id # CurrentToolCall.args[1])
       => /\ devVars' = devVars
          /\ pc' # "raised"
          /\ Len(tool_results') = Len(tool_results) + 1 =>
                LET r == tool_results'[Len(tool_results')]
                IN  /\ r.tool_use_id = CurrentToolCall.tool_use_id
                    /\ r.is_error
                    /\ r.text = "not_found"
                    /\ r.ids = ElementIds(elements)]_vars

\* C7 witness: an id absent from a list of several elements was answered by
\* the error result, and the device saw no input for this response
C7_Witness ==
    /\ scenario = "tools"
    /\ tool_results # <<>>
    /\ tool_results[1].text = "not_found" /\ tool_results[1].is_error
    /\ Len(tool_results[1].ids) >= 2
    /\ dev_calls = <<>>

\* C9: each executed tool call whose post-action hash equals the stored
\* pre-action hash raises the no-change counter by one and carries the
\* warning, with the escalation text exactly when the counter is then at
\* least 3; a call whose hashes differ resets the counter to 0 and carries
\* neither; nothing else changes the counter.
C9_NoChangeCounter ==
    [][IF Len(tool_results') = Len(tool_results) + 1
       THEN LET r == tool_results'[Len(tool_results')]
            IN  IF last_screenshot_hash' = last_screenshot_hash
                THEN /\ no_change_count' = no_change_count + 1
                     /\ r.warn
                     /\ r.escalate <=> no_change_count' >= 3
                ELSE /\ no_change_count' = 0
                     /\ ~r.warn /\ ~r.escalate
       ELSE no_change_count' = no_change_count]_vars

\* C9 witness: the hashes h1, h1, h1, h1 were stored one after the other, the
\* third comparison brought the counter to 3 and the escalation text
C9_Witness ==
    /\ scenario = "steady"
    /\ step = 4
    /\ no_change_count = 3
    /\ tool_results # <<>>
    /\ tool_results[Len(tool_results)].escalate

\* C12 as stated: every tap, swipe or long-press sent to the device has all
\* its coordinates inside the screen, 0 <= x < width and 0 <= y < height
C12_InputInsideScreen ==
    (dev_last # <<>> /\ dev_last[1].op \in {"tap", "swipe"}) =>
        \A i \in 1..Len(dev_last[1].args) :
            /\ 0 <= dev_last[1].args[i]
            /\ dev_last[1].args[i] < (IF i % 2 = 1 THEN ScreenW ELSE ScreenH)

\* C13 as stated: once the interrupt handler has run, no tool call of the
\* batch that had not yet started is executed (the step counter and the
\* device are left alone)
C13_NoToolCallAfterInterrupt ==
    [][(pc = "batch" /\ ~running) => (step' = step /\ dev_count' = dev_count)]_vars

\* the turn holds a tool_result block for the tool call id
HasResultFor(turn, id) ==
    \E i \in 1..Len(turn.content) :
        turn.content[i].type = "tool_result" /\ turn.content[i].tool_use_id = id

\* C14 as stated: executing a game_over tool call ends the batch without a
\* device input, no later call of the batch is executed, and the stored
\* conversation then ends with a tool-result turn holding the game_over
\* result and the results of the calls executed before it in that batch
C14_GameOverResultRecorded ==
    [][(pc = "batch" /\ CurrentToolCall.name = "game_over" /\ step' = step + 1)
       => /\ devVars' = devVars
          /\ pc' \notin {"batch", "submit"}
          /\ ~running'
          /\ messages' # <<>>
          /\ messages'[Len(messages')].role = "user"
          /\ \A i \in 1..batch_idx :
                HasResultFor(messages'[Len(messages')],
                             last_response.tool_calls[i].tool_use_id)]_vars

\* the for loop of _run_step was left by the step limit with tool calls of
\* the batch unexecuted
CutByStepLimit ==
    pc = "submit" /\ step >= max_steps /\ Len(tool_results) < Len(last_response.tool_calls)

\* C15: when the step counter has reached max_steps while tool calls of the
\* current batch are unexecuted, the turn submitted to the planner holds, after
\* the results of the executed calls, one error result per remaining call with
\* that call's own tool_use_id; no device input is sent for them, the step
\* counter stays at the limit so that the loop ends, and no tool call is ever
\* executed with the step counter at the limit.
C15_StepLimitErrorsForRemainingCalls ==
    /\ [](pc = "batch" => step < max_steps)
    /\ [][(CutByStepLimit /\ pc' # "submit")
          => LET calls == last_response.tool_calls
                 turn == last_request'[Len(last_request')]
             IN  /\ dev_count' = dev_count /\ dev_last' = dev_last
                 /\ step' = step
                 /\ pc' \in {"loop", "done"}
                 /\ turn.role = "user"
                 /\ Len(turn.content) = Len(calls)
                 /\ \A i \in (Len(tool_results) + 1)..Len(calls) :
                       turn.content[i] =
                          ToolResultBlock(calls[i].tool_use_id,
                                          <<TextBlock("step_limit")>>, TRUE)]_vars

\* C15 witness: the session is over at the step limit and its conversation
\* holds a step-limit error result for a call that was not executed
C15_Witness ==
    /\ pc = "done" /\ step = max_steps
    /\ \E i \in 1..Len(messages) : \E j \in 1..Len(messages[i].content) :
          /\ messages[i].content[j].type = "tool_result"
          /\ messages[i].content[j].is_error
          /\ messages[i].content[j].content = <<TextBlock("step_limit")>>
          /\ j > 1

\* a step that ends a pass of the while loop of run(): _run_step returned or
\* raised into the except clauses
PassEnd ==
    /\ pc \in {"loop", "batch", "submit"}
    /\ pc' \in {"loop", "done"}
    /\ ~LoopExit
    /\ ~Interrupt

\* C16: every DeviceError or VisionError caught in a pass of the loop raises
\* the consecutive-error counter by one, every pass without error resets it
\* to 0, nothing else changes it, the session is over as soon as the counter
\* reaches error_threshold, and 0 <= consecutive_errors <= error_threshold in
\* every reachable state.
C16_ConsecutiveErrorCounter ==
    /\ [](/\ 0 <= consecutive_errors
          /\ consecutive_errors <= ErrorThreshold
          /\ consecutive_errors >= ErrorThreshold => pc = "done")
    /\ [][IF PassEnd
          THEN IF handled'.error = "ok" THEN consecutive_errors' = 0
               ELSE /\ handled'.error \in {"DeviceError", "VisionError"}
                    /\ consecutive_errors' = consecutive_errors + 1
          ELSE consecutive_errors' = consecutive_errors]_vars

\* C16 witness: the planner failed error_threshold times in a row and the
\* session is over with steps left and no stop requested
C16_Witness ==
    /\ pc = "done"
    /\ consecutive_errors = ErrorThreshold
    /\ handled.error = "VisionError"
    /\ running /\ step < max_steps

\* C17 as stated: a DeviceError raised anywhere in the session, the initial
\* observation included, ends the session only if is_connected() reports the
\* device unreachable; with the device connected the loop goes on, subject to
\* the error threshold
C17_DeviceErrorEndsOnlyIfDisconnected ==
    [][/\ pc = "initial" => ~(pc' = "raised" /\ exc' = "DeviceError")
       /\ (PassEnd /\ handled'.error = "DeviceError" /\ handled'.connected
              /\ consecutive_errors' < ErrorThreshold) => pc' = "loop"]_vars

\* the planner failures _call_api tells apart
FailureKinds == {"rate_limit", "overflow", "api_error"}

\* a pass of the loop ends with the VisionError of a failed planner request
PlannerFailureReported ==
    PassEnd /\ planner_calls' = planner_calls + 1 /\ handled'.error = "VisionError"

TextPass ==
    /\ pc = "loop" /\ LoopCondition
    /\ last_response.tool_calls = <<>>
    /\ ~Interrupt

\* C21: a pass on a response without tool calls uses no step and sends no
\* device input; if the text says the game is over the session is stopped
\* (and a stopped session only leaves the loop); otherwise, unless the
\* capture fails, a fresh observation is sent to the planner
C21_TextResponseObservesAgain ==
    [][/\ (pc = "loop" /\ ~running) => pc' = "done"
       /\ TextPass =>
            /\ step' = step /\ devVars' = devVars
            /\ IF last_response.text = "game over"
               THEN ~running' /\ pc' = "loop" /\ convVars' = convVars
               ELSE \/ handled'.error = "DeviceError" /\ convVars' = convVars
                    \/ /\ planner_calls' = planner_calls + 1
                       /\ last_request'[Len(last_request')] = ScreenshotTurn
                       /\ running' = running]_vars

\* a second observation was sent after a text response, at step 0 and
\* without any device input
C21_Witness ==
    /\ pc = "loop" /\ running
    /\ step = 0 /\ dev_count = 0
    /\ Len(last_request) >= 3
    /\ last_request[Len(last_request)] = ScreenshotTurn
    /\ last_request[Len(last_request) - 1] = AssistantTurn(Response("end_turn", <<>>, "thinking"))

\* the for loop is at a tool call and processes it
ProcessesCall == pc = "batch" /\ ~Interrupt

\* C22 (as amended): the tool calls of a response are processed in response
\* order, one at a time, from the first on, until the batch ends: when all
\* are processed, at the step limit, at a terminal-declare or at an
\* exception; every processed call adds exactly one to the step counter,
\* whatever its outcome
C22_CallsInOrderOneStepEach ==
    /\ [](pc \in {"batch", "submit"} =>
            /\ batch_idx \in 1..Len(last_response.tool_calls)
            /\ Len(tool_results) = (IF pc = "batch" THEN batch_idx - 1 ELSE batch_idx)
            /\ \A i \in 1..Len(tool_results) :
                 tool_results[i].tool_use_id = last_response.tool_calls[i].tool_use_id)
    /\ [][/\ (pc = "loop" /\ pc' = "batch") => batch_idx' = 1 /\ step' = step
          /\ ProcessesCall =>
               /\ step' = step + 1
               /\ last_response' = last_response
               /\ pc' = "batch" => batch_idx' = batch_idx + 1
               /\ pc' = "submit" =>
                    \/ batch_idx = Len(last_response.tool_calls)
                    \/ step' >= max_steps
          /\ (pc # "batch" \/ Interrupt) => step' = step]_vars

\* a batch of two calls was processed to its end: a resolution error, then
\* a tap that reached the device; each took one step
C22_Witness ==
    /\ pc = "submit" /\ step = 2
    /\ Len(last_response.tool_calls) = 2 /\ Len(tool_results) = 2
    /\ tool_results[1].text = "not_found" /\ tool_results[1].is_error
    /\ tool_results[2].text = "tapped_element"
    /\ dev_calls = <<last_response.tool_calls[2].tool_use_id>>

\* C22 as stated: every tool call of a response is processed, so whenever
\* results are submitted each call of the response has been processed
C22_EveryCallProcessed ==
    pc = "submit" => Len(tool_results) = Len(last_response.tool_calls)

\* _run_step is at submit_tool_results and calls it
Submits == pc = "submit" /\ ~Interrupt

\* C23: when _run_step submits tool results, the request ends with one user
\* turn, appended to the turns so far, that holds exactly one tool_result
\* per tool call of the response processed, in the order of the calls, each
\* with the id of its call; when the planner replies, the reply is appended
\* as the next assistant turn and becomes the response to process
C23_OneResultPerCallInOneTurn ==
    [][Submits =>
         LET calls == last_response.tool_calls
             n == Len(last_request')
             turn == last_request'[n]
         IN  /\ planner_calls' = planner_calls + 1
             /\ n = Len(messages) + 1
             /\ turn.role = "user"
             /\ Len(turn.content) = Len(calls)
             /\ \A i \in 1..Len(calls) :
                  /\ turn.content[i].type = "tool_result"
                  /\ turn.content[i].tool_use_id = calls[i].tool_use_id
             /\ handled'.error = "ok" =>
                  /\ messages' = Append(last_request', AssistantTurn(last_response'))
                  /\ last_response' # last_response]_vars

\* the results of a batch of two calls were submitted in one turn and the
\* planner's reply, a tool_use response, follows it
C23_Witness ==
    /\ pc = "loop" /\ handled.error = "ok"
    /\ Len(messages) >= 4
    /\ LET n == Len(messages)
       IN  /\ messages[n] = AssistantTurn(last_response)
           /\ last_response.stop_reason = "tool_use"
           /\ messages[n - 1].role = "user"
           /\ Len(messages[n - 1].content) = 2
           /\ messages[n - 2].role = "assistant"
           /\ \A i \in 1..2 :
                /\ messages[n - 1].content[i].type = "tool_result"
                /\ messages[n - 2].content[i].type = "tool_use"
                /\ messages[n - 1].content[i].tool_use_id = messages[n - 2].content[i].id

\* C27 as stated: no tool call of the planner leads to more than one device
\* input, also when a DeviceError or a VisionError ended a pass over its
\* batch and the loop went on
C27_AtMostOneInputPerCall ==
    \A i, j \in 1..Len(dev_calls) : dev_calls[i] = dev_calls[j] => i = j

\* the ids of the tool_use blocks of a turn
ToolUseIds(turn) ==
    {turn.content[i].id : i \in {j \in 1..Len(turn.content) : turn.content[j].type = "tool_use"}}

\* the ids the tool_result blocks of a turn answer
ToolResultIds(turn) ==
    {turn.content[i].tool_use_id :
        i \in {j \in 1..Len(turn.content) : turn.content[j].type = "tool_result"}}

\* every tool_result of the request answers a tool_use of the assistant turn
\* right before it, and every tool_use of an assistant turn followed by a
\* user turn is answered there
Paired(req) ==
    \A k \in 1..Len(req) :
        /\ (req[k].role = "user" /\ ToolResultIds(req[k]) # {}) =>
              /\ k > 1
              /\ req[k - 1].role = "assistant"
              /\ ToolResultIds(req[k]) \subseteq ToolUseIds(req[k - 1])
        /\ (req[k].role = "assistant" /\ k < Len(req) /\ req[k + 1].role = "user") =>
              ToolUseIds(req[k]) \subseteq ToolResultIds(req[k + 1])

\* C28 as stated: in every request sent to the planner the tool_result
\* blocks and the tool_use blocks are paired, also after planner errors,
\* after a context-overflow reset and for responses whose stop reason is
\* not tool_use
C28_ResultsAnswerToolUse == Paired(last_request)

\* C30 as stated: a tap_element id is resolved against the elements of the
\* frame the planner was shown when it issued the call, never against those
\* of a later frame: when the for loop goes on to a tap_element call of the
\* same batch, the list it resolves against is still the one the batch
\* started with
C30_IdResolvedAgainstFrameShown ==
    [][(/\ pc = "batch" /\ pc' = "batch"
        /\ last_response.tool_calls[batch_idx'].name = "tap_element")
       => elements' = elements]_vars

\* C32: the step counter stays within 0..max_steps, and a session sends at
\* most max_steps device inputs (each is sent by a counted tool call)
C32_StepsAndInputsWithinBudget ==
    max_steps >= 1 =>
        /\ 0 <= step /\ step <= max_steps
        /\ dev_count <= step
        /\ dev_count <= max_steps

\* the budget is used up by device inputs alone
C32_Witness ==
    /\ pc = "done" /\ max_steps = MaxSteps
    /\ step = max_steps /\ dev_count = max_steps

\* the for loop is at a tap_element whose id matches no element of the list
Unresolved ==
    /\ pc = "batch"
    /\ CurrentToolCall.name = "tap_element"
    /\ FindElement(elements, CurrentToolCall.args[1]) = <<>>
    /\ ~Interrupt

\* C35: an unresolved element id raises no exception and does not move the
\* consecutive-error counter: it is handed to the planner as an error
\* result and the for loop goes on to the next call (to the submission
\* after the last call or at the step limit); the counter moves in such a
\* pass only when the capture after the call fails with a DeviceError.  A
\* session of unresolved ids alone never counts an error.
C35_UnresolvedIdNotCounted ==
    /\ [](scenario = "absent_only" => consecutive_errors = 0 /\ exc = "none")
    /\ [][Unresolved =>
           /\ pc' # "raised" /\ exc' = exc
           /\ \/ /\ pc' \in {"loop", "done"}
                 /\ handled'.error = "DeviceError"
                 /\ consecutive_errors' = consecutive_errors + 1
                 /\ tool_results' = tool_results
              \/ /\ consecutive_errors' = consecutive_errors
                 /\ Len(tool_results') = Len(tool_results) + 1
                 /\ tool_results'[Len(tool_results')].is_error
                 /\ tool_results'[Len(tool_results')].text = "not_found"
                 /\ IF batch_idx < Len(last_response.tool_calls) /\ step' < max_steps
                    THEN pc' = "batch" /\ batch_idx' = batch_idx + 1
                    ELSE pc' = "submit"]_vars

\* C35 witness: the first call of a batch was not resolved, no error is
\* counted, and the for loop is at the second call
C35_Witness ==
    /\ pc = "batch" /\ batch_idx = 2
    /\ Len(tool_results) = 1
    /\ tool_results[1].text = "not_found" /\ tool_results[1].is_error
    /\ consecutive_errors = 0
    /\ dev_count = 0

\* the key a keycode stands for
KeyNamed(keycode) ==
    IF keycode = "KEYCODE_BACK" THEN "BACK"
    ELSE IF keycode = "KEYCODE_HOME" THEN "HOME"
    ELSE IF keycode = "KEYCODE_ENTER" THEN "ENTER"
    ELSE "?"

\* C36 as stated: press_key sends KEYCODE_BACK, KEYCODE_HOME or
\* KEYCODE_ENTER only, and the key its tool result names is the key that
\* was sent, whatever key the planner supplied
C36_KeyReportedIsKeySent ==
    \A i \in 1..Len(tool_results) :
        (/\ tool_results[i].text = "pressed"
         /\ dev_last # <<>> /\ dev_last[1].call = tool_results[i].tool_use_id)
        => /\ dev_last[1].op = "key"
           /\ dev_last[1].key \in {"KEYCODE_BACK", "KEYCODE_HOME", "KEYCODE_ENTER"}
           /\ tool_results[i].key = KeyNamed(dev_last[1].key)

-----------------------------------------------------------------------------
(* AgentLoop._capture_stable_screenshot, poll by poll.  Time is counted in *)
(* stabilization intervals: a pass of the loop takes the sleep of one      *)
(* interval, and the capture may take up to one more.                      *)

MaxTimeout == 5       \* largest stabilization_timeout, in intervals
StableNeeded == 2     \* stable_count from which the frame is returned

\* a faulty variant that returns at the first match
IsStableAtFirstMatch(count) == count >= 1

\* if stable_count >= 2: return screenshot
IsStable(count) == count >= StableNeeded

\* one pass of the while loop: capture, hash, compare, sleep
StabPoll ==
    /\ st_pc = "loop"
    /\ st_elapsed < st_timeout
    /\ \E h \in Frames, d \in 1..2 :
         LET same == st_prev = <<h>>
             count == IF same THEN st_stable + 1 ELSE 0
         IN  /\ st_hist' = Append(st_hist, h)
             /\ st_stable' = count
             /\ IF same /\ IsStable(count)
                THEN /\ st_pc' = "returned_stable"
                     /\ st_ret' = <<h>>
                     /\ UNCHANGED <<st_prev, st_elapsed>>
                ELSE /\ st_pc' = "loop"
                     /\ st_ret' = st_ret
                     /\ st_prev' = <<h>>
                     /\ st_elapsed' = st_elapsed + d
    /\ UNCHANGED <<st_timeout, loopVars, convVars, devVars, envVars, mobVars, fnVars>>

\* DeviceManager.screenshot raises DeviceError inside the loop
StabCaptureFails ==
    /\ st_pc = "loop"
    /\ st_elapsed < st_timeout \/ st_hist = <<>>
    /\ st_pc' = "raised"
    /\ UNCHANGED <<st_timeout, st_elapsed, st_prev, st_stable, st_hist, st_ret>>
    /\ UNCHANGED <<loopVars, convVars, devVars, envVars, mobVars, fnVars>>

\* a faulty variant that returns the first frame it captured
StabTimeoutFirstFrame ==
    /\ st_pc = "loop"
    /\ ~(st_elapsed < st_timeout)
    /\ st_pc' = "returned_timeout"
    /\ IF st_hist = <<>>
       THEN \E h \in Frames : st_hist' = <<h>> /\ st_ret' = <<h>>
       ELSE st_hist' = st_hist /\ st_ret' = <<st_hist[1]>>
    /\ UNCHANGED <<st_timeout, st_elapsed, st_prev, st_stable>>
    /\ UNCHANGED <<loopVars, convVars, devVars, envVars, mobVars, fnVars>>

\* the while condition is false: the latest frame, or one capture if none
StabTimeout ==
    /\ st_pc = "loop"
    /\ ~(st_elapsed < st_timeout)
    /\ st_pc' = "returned_timeout"
    /\ IF st_hist = <<>>
       THEN \E h \in Frames : st_hist' = <<h>> /\ st_ret' = <<h>>
       ELSE st_hist' = st_hist /\ st_ret' = <<st_hist[Len(st_hist)]>>
    /\ UNCHANGED <<st_timeout, st_elapsed, st_prev, st_stable>>
    /\ UNCHANGED <<loopVars, convVars, devVars, envVars, mobVars, fnVars>>

StabInit ==
    /\ st_pc = "loop"
    /\ st_timeout \in (0 - 1)..MaxTimeout
    /\ st_elapsed = 0
    /\ st_prev = <<>>
    /\ st_stable = 0
    /\ st_hist = <<>>
    /\ st_ret = <<>>

StabNext == StabPoll \/ StabCaptureFails \/ StabTimeout

InitStab == LoopInit({<<"none", 0>>}) /\ StabInit /\ MobileIdle /\ FnIdle

SpecStab == InitStab /\ [][StabNext]_vars

\* the function runs on one thread that nothing suspends: a capture returns
\* or raises, and a sleep ends
SpecStabFair == InitStab /\ [][StabNext]_vars /\ WF_vars(StabNext)

\* the captures k-2, k-1 and k hash identically
ThreeEqual(hist, k) == hist[k] = hist[k-1] /\ hist[k-1] = hist[k-2]

\* C8 (as amended): _capture_stable_screenshot returns a frame as stable
\* exactly at the first capture whose hash equals the hashes of the two
\* captures before it, and returns that capture: three consecutive equal
\* hashes, never two.  As long as it polls, and when it ends by timeout or
\* by a capture error, no three consecutive captures were equal.
C8_StableAfterThreeEqualCaptures ==
    LET n == Len(st_hist)
    IN  /\ st_pc = "returned_stable" =>
              /\ n >= 3
              /\ ThreeEqual(st_hist, n)
              /\ \A k \in 3..(n - 1) : ~ThreeEqual(st_hist, k)
              /\ st_ret = <<st_hist[n]>>
        /\ st_pc \in {"loop", "raised", "returned_timeout"} =>
              \A k \in 3..n : ~ThreeEqual(st_hist, k)

\* C8 witness: two equal captures, then a new frame, and the function went
\* on polling until three equal captures let it return
C8_Witness ==
    /\ st_pc = "returned_stable"
    /\ Len(st_hist) = 5
    /\ st_hist[1] = st_hist[2]
    /\ st_hist[3] # st_hist[2]

\* C8 as stated: once the first two captures hash identically the function
\* has returned, after exactly 2 captures
C8_ReturnsAfterTwoEqualCaptures ==
    (Len(st_hist) >= 2 /\ st_hist[1] = st_hist[2]) =>
        (st_pc = "returned_stable" /\ Len(st_hist) = 2)

\* the function has returned a frame
StabReturned == st_pc \in {"returned_stable", "returned_timeout"}

\* C40 (as amended): _capture_stable_screenshot always terminates, by
\* returning a frame or by the DeviceError of a capture that failed.  It
\* captures at most one frame per interval of the timeout (one if the
\* timeout is 0 or less); the frame it returns is the last one it captured;
\* it returns by timeout only once the timeout has elapsed, and with a
\* timeout of 0 or less it captures exactly one frame and returns it.
C40_TerminatesWithLastFrameOrDeviceError ==
    /\ <>(StabReturned \/ st_pc = "raised")
    /\ [](Len(st_hist) <= (IF st_timeout > 1 THEN st_timeout ELSE 1))
    /\ [](StabReturned =>
            st_hist # <<>> /\ st_ret = <<st_hist[Len(st_hist)]>>)
    /\ [](st_pc = "returned_timeout" => st_elapsed >= st_timeout)
    /\ [](st_pc = "raised" => st_ret = <<>>)
    /\ []((st_timeout <= 0 /\ st_pc # "loop") =>
            /\ st_pc \in {"returned_timeout", "raised"}
            /\ st_pc = "returned_timeout" => Len(st_hist) = 1
            /\ st_pc = "raised" => st_hist = <<>>)

\* C40 witness: the frames kept changing until the timeout elapsed, and the
\* third and last capture was returned, not the first
C40_Witness ==
    /\ st_pc = "returned_timeout"
    /\ st_timeout = 3
    /\ Len(st_hist) = 3
    /\ st_hist[3] # st_hist[1]
    /\ st_ret = <<st_hist[3]>>

\* C40 as stated: the function always terminates and returns a frame
C40_AlwaysReturnsFrame == <>StabReturned

-----------------------------------------------------------------------------
(* mobile_agent.vision_analyzer.VisionAnalyzer._grid_to_pixel_with_offset. *)
(* Pixels are counted in 1/OffsetScale of a pixel, so random.uniform draws *)
(* its offset from the multiples of 1/OffsetScale in [-0.4 s, 0.4 s].      *)

MaxCell == 3          \* largest grid cell index
MaxCellSize == 6      \* largest grid cell size
OffsetScale == 10     \* sub-pixel steps per pixel

\* max_offset = grid_size * 0.4, in sub-pixel steps
MaxOffset(grid_size) == (4 * grid_size * OffsetScale) \div 10

\* a faulty variant that clamps at the upper bound only
ClampToCellAbove(v, min_bound, max_bound) == Min(v, max_bound * OffsetScale)

\* max(min_bound, min(cell_center + offset, max_bound)), in sub-pixel steps
ClampToCell(v, min_bound, max_bound) ==
    Max(min_bound * OffsetScale, Min(v, max_bound * OffsetScale))

\* _grid_to_pixel_with_offset for the offset drawn, in sub-pixel steps
GridToPixelWithOffset(grid_coord, grid_size, offset) ==
    LET cell_center == (grid_coord * grid_size) + (grid_size \div 2)
        min_bound == grid_coord * grid_size
        max_bound == (grid_coord + 1) * grid_size - 1
    IN  ClampToCell(cell_center * OffsetScale + offset, min_bound, max_bound)

GridInputs ==
    {<<c, sz, o>> \in (0..MaxCell) \X (1..MaxCellSize)
                      \X ((0 - MaxOffset(MaxCellSize))..MaxOffset(MaxCellSize)) :
        (0 - MaxOffset(sz)) <= o /\ o <= MaxOffset(sz)}

GridInit == fn = "_grid_to_pixel_with_offset" /\ arg \in GridInputs /\ ret = <<>>

GridCall ==
    /\ fn = "_grid_to_pixel_with_offset"
    /\ ret = <<>>
    /\ ret' = <<GridToPixelWithOffset(arg[1], arg[2], arg[3])>>
    /\ UNCHANGED <<fn, arg, loopVars, convVars, devVars, envVars, stabVars, mobVars>>

InitGrid == LoopInit({<<"none", 0>>}) /\ StabIdle /\ MobileIdle /\ GridInit

SpecGrid == InitGrid /\ [][GridCall]_vars

\* C10: for every cell index c >= 0 and cell size s >= 1 the value returned
\* p of _grid_to_pixel_with_offset(c, s) satisfies c*s <= p < (c+1)*s,
\* whatever offset was drawn.
C10_PixelInsideCell ==
    (fn = "_grid_to_pixel_with_offset" /\ ret # <<>>) =>
        /\ arg[1] * arg[2] * OffsetScale <= ret[1]
        /\ ret[1] < (arg[1] + 1) * arg[2] * OffsetScale

\* C10 witness: a cell of one pixel and a negative offset, held at the lower
\* bound of the cell
C10_Witness ==
    /\ fn = "_grid_to_pixel_with_offset" /\ ret # <<>>
    /\ arg[1] = 2 /\ arg[2] = 1 /\ arg[3] < 0
    /\ ret[1] = 2 * OffsetScale

-----------------------------------------------------------------------------
(* mobile_agent.agent.MobileAgent.execute_instruction, one pass of its     *)
(* loop per step.  A plan is the action_plan dict of the vision analyzer:  *)
(* its action and its coordinates (<<>> where the dict has none).          *)

MaxIterations == 3    \* config.max_iterations of the modelled agent
MaxStepsArg == 4      \* largest max_steps argument; 0 is None

Plan(action, coordinates) == [action |-> action, coordinates |-> coordinates]

\* the plans analyze_screenshot can return
Plans ==
    {Plan("TAP", <<1, 1>>), Plan("TAP", <<2, 2>>), Plan("SWIPE", <<>>),
     Plan("BACK", <<>>), Plan("WAIT", <<>>), Plan("COMPLETE", <<>>), Plan("ERROR", <<>>)}

\* ActionExecutor.execute_action: whether it succeeded and the device inputs
\* it asked the ADB controller for
ExecOutcomes(plan) ==
    IF plan.action \in {"TAP", "SWIPE", "BACK"}
    THEN {[success |-> TRUE, dev |-> 1], [success |-> FALSE, dev |-> 0]}
    ELSE IF plan.action = "WAIT" THEN {[success |-> TRUE, dev |-> 0]}
    ELSE {[success |-> FALSE, dev |-> 0]}

\* _detect_action_loop, called after the plan was appended to taken
DetectActionLoop(current, last, taken) ==
    IF last = <<>> THEN FALSE
    ELSE \/ current.action = last[1].action /\ current.coordinates = last[1].coordinates
         \/ /\ Len(taken) >= 4
            /\ Cardinality({taken[i].action : i \in (Len(taken) - 3)..Len(taken)}) <= 2

\* _get_alternative_action: <<>> is None
AlternativeAction(stuck) ==
    IF stuck.action = "TAP" THEN <<Plan("SWIPE", <<>>)>>
    ELSE IF stuck.action = "SWIPE" THEN <<Plan("BACK", <<>>)>>
    ELSE <<>>

\* _get_final_status
FinalStatus(taken, is_running) ==
    IF taken = <<>> THEN "NO_ACTIONS_TAKEN"
    ELSE IF taken[Len(taken)].action = "COMPLETE" THEN "COMPLETED"
    ELSE IF taken[Len(taken)].action = "ERROR" THEN "ERROR"
    ELSE IF Len(taken) >= MaxIterations THEN "MAX_STEPS_REACHED"
    ELSE IF ~is_running THEN "INTERRUPTED"
    ELSE "UNKNOWN"

\* _create_execution_summary
ExecutionSummary(steps_taken, taken, is_running) ==
    [steps_taken |-> steps_taken,
     completed |-> \E i \in 1..Len(taken) : taken[i].action = "COMPLETE",
     final_status |-> FinalStatus(taken, is_running)]

\* one pass of the while loop of execute_instruction
MobileStep ==
    /\ m_pc = "loop"
    /\ m_is_running /\ m_step_count < m_max_steps
    /\ \/ \* no screenshot, or no action plan: break
          /\ m_pc' = "summary"
          /\ UNCHANGED <<m_action, m_is_running, m_actions_taken, m_last_action,
                         m_step_count, m_dev_count>>
       \/ \E plan \in Plans :
            /\ m_action' = plan.action
            /\ IF plan.action = "COMPLETE"
               THEN /\ m_is_running' = FALSE
                    /\ m_pc' = "summary"
                    /\ UNCHANGED <<m_actions_taken, m_last_action, m_step_count, m_dev_count>>
               ELSE IF plan.action = "ERROR"
               THEN /\ m_pc' = "summary"
                    /\ UNCHANGED <<m_is_running, m_actions_taken, m_last_action,
                                   m_step_count, m_dev_count>>
               ELSE \E out \in ExecOutcomes(plan) :
                      LET taken == Append(m_actions_taken, plan)
                          alt == IF DetectActionLoop(plan, m_last_action, taken)
                                 THEN AlternativeAction(plan) ELSE <<>>
                      IN  /\ m_actions_taken' = taken
                          /\ \E aout \in (IF alt = <<>> THEN {[success |-> TRUE, dev |-> 0]}
                                          ELSE ExecOutcomes(alt[1])) :
                                m_dev_count' = m_dev_count + out.dev + aout.dev
                          /\ m_last_action' = <<plan>>
                          /\ m_step_count' = m_step_count + 1
                          /\ m_pc' = "loop"
                          /\ UNCHANGED m_is_running
    /\ UNCHANGED <<m_max_steps, m_summary>>
    /\ UNCHANGED <<loopVars, convVars, devVars, envVars, stabVars, fnVars>>

\* stop_execution, called from another thread or a progress callback
MobileStop ==
    /\ m_pc = "loop"
    /\ m_is_running
    /\ m_is_running' = FALSE
    /\ UNCHANGED <<m_pc, m_max_steps, m_step_count, m_action, m_last_action,
                   m_actions_taken, m_dev_count, m_summary>>
    /\ UNCHANGED <<loopVars, convVars, devVars, envVars, stabVars, fnVars>>

\* an exception inside the loop: KeyboardInterrupt clears is_running, any
\* other Exception is logged
MobileException ==
    /\ m_pc = "loop"
    /\ m_is_running /\ m_step_count < m_max_steps
    /\ m_pc' = "summary"
    /\ m_is_running' \in {m_is_running, FALSE}
    /\ UNCHANGED <<m_max_steps, m_step_count, m_action, m_last_action,
                   m_actions_taken, m_dev_count, m_summary>>
    /\ UNCHANGED <<loopVars, convVars, devVars, envVars, stabVars, fnVars>>

\* the loop is over: build and return the summary
MobileReturn ==
    /\ \/ m_pc = "summary"
       \/ m_pc = "loop" /\ ~(m_is_running /\ m_step_count < m_max_steps)
    /\ m_pc' = "returned"
    /\ m_summary' = <<ExecutionSummary(m_step_count, m_actions_taken, m_is_running)>>
    /\ UNCHANGED <<m_max_steps, m_step_count, m_action, m_last_action,
                   m_actions_taken, m_is_running, m_dev_count>>
    /\ UNCHANGED <<loopVars, convVars, devVars, envVars, stabVars, fnVars>>

\* execute_instruction up to its loop: max_steps or config.max_iterations
MobileInit ==
    /\ m_pc = "loop"
    /\ \E a \in 0..MaxStepsArg : m_max_steps = IF a = 0 THEN MaxIterations ELSE a
    /\ m_step_count = 0
    /\ m_action = ""
    /\ m_last_action = <<>>
    /\ m_actions_taken = <<>>
    /\ m_is_running = TRUE
    /\ m_dev_count = 0
    /\ m_summary = <<>>

MobileNext == MobileStep \/ MobileStop \/ MobileException \/ MobileReturn

InitMobile == LoopInit({<<"none", 0>>}) /\ StabIdle /\ MobileInit /\ FnIdle

SpecMobile == InitMobile /\ [][MobileNext]_vars

\* C1 as stated: a terminal declare (COMPLETE) issued after k executed actions
\* with k below the budget ends the session with final_status COMPLETED and
\* completed set, after exactly k device inputs
C1_DeclareEndsCompleted ==
    (m_pc = "returned" /\ m_action = "COMPLETE") =>
        /\ m_summary[1].final_status = "COMPLETED"
        /\ m_summary[1].completed
        /\ m_dev_count <= Len(m_actions_taken)

\* C24 as stated: the summary execute_instruction returns names the cause
\* of the termination: COMPLETED (and completed set) exactly when the last
\* plan was COMPLETE, ERROR when it was ERROR, MAX_STEPS_REACHED when the
\* budget in effect ran out, INTERRUPTED only after a stop or an interrupt
C24_FinalStatusNamesCause ==
    m_pc = "returned" =>
        LET s == m_summary[1]
        IN  /\ s.completed <=> m_action = "COMPLETE"
            /\ m_action = "COMPLETE" => s.final_status = "COMPLETED"
            /\ m_action = "ERROR" => s.final_status = "ERROR"
            /\ (m_action \notin {"COMPLETE", "ERROR"} /\ m_is_running
                  /\ m_step_count >= m_max_steps) => s.final_status = "MAX_STEPS_REACHED"
            /\ s.final_status = "INTERRUPTED" => ~m_is_running /\ m_action # "COMPLETE"

\* C33 as stated: no more device inputs than counted steps, so never more
\* than the step budget max_steps, in steps with a detected action loop too
C33_OneDeviceActionPerStep ==
    /\ m_dev_count <= m_step_count
    /\ m_dev_count <= m_max_steps

-----------------------------------------------------------------------------
(* ConversationClient._trim_conversation as a function of the stored turns *)
(* and max_images.                                                         *)

MaxTurns == 5         \* longest conversation handed to _trim_conversation
MaxCap == 2           \* largest max_images handed to _trim_conversation

\* the user turns of a conversation: a screenshot, tool results with and
\* without a screenshot, a screenshot already stripped, a carried-over summary
UserTurns ==
    {ScreenshotTurn,
     Turn("user", <<ToolResultBlock(1, <<ImageBlock, TextBlock("tapped_element")>>, FALSE)>>),
     Turn("user", <<ToolResultBlock(1, <<TextBlock("not_found")>>, TRUE)>>),
     StripImages(ScreenshotTurn),
     Turn("user", <<TextBlock("summary")>>)}

\* the assistant turns of a conversation
AssistantTurns ==
    {Turn("assistant", <<ToolUseBlock(1)>>), Turn("assistant", <<TextBlock("assistant")>>)}

\* conversations of up to MaxTurns turns, roles alternating from a user turn
Conversations ==
    UNION { {c \in [1..n -> UserTurns \cup AssistantTurns] :
                \A i \in 1..n : c[i].role = IF i % 2 = 1 THEN "user" ELSE "assistant"}
            : n \in 0..MaxTurns }

TrimInit == fn = "_trim_conversation" /\ arg \in Conversations \X (1..MaxCap) /\ ret = <<>>

TrimCall ==
    /\ fn = "_trim_conversation"
    /\ ret = <<>>
    /\ ret' = <<TrimConversation(arg[1], arg[2])>>
    /\ UNCHANGED <<fn, arg, loopVars, convVars, devVars, envVars, stabVars, mobVars>>

InitTrim == LoopInit({<<"none", 0>>}) /\ StabIdle /\ MobileIdle /\ TrimInit

SpecTrim == InitTrim /\ [][TrimCall]_vars

\* C4 as stated: when _trim_conversation has run on a conversation with n
\* image-bearing turns and a cap c < n, exactly the n - c oldest image-bearing
\* turns have every image replaced by a placeholder, the c newest keep their
\* images, and every other turn and block is unchanged
C4_OldestImageTurnsStripped ==
    (fn = "_trim_conversation" /\ ret # <<>>) =>
        LET msgs == arg[1]
            out == ret[1]
            n == ImageTurns(msgs)
        IN  n > arg[2] =>
              /\ Len(out) = Len(msgs)
              /\ \A i \in 1..Len(msgs) :
                   IF MessageHasImage(msgs[i]) /\ ImageTurnsUpTo(msgs, i) <= n - arg[2]
                   THEN ~MessageHasImage(out[i]) /\ out[i] = StripImages(msgs[i])
                   ELSE out[i] = msgs[i]

-----------------------------------------------------------------------------
(* VisionAnalyzer._scale_coordinates_to_original on one axis.  The image   *)
(* sent to the model is the device image scaled by max_width / width, where *)
(* width > max_width; a coordinate of the scaled image is the fraction      *)
(* num / den.  Floating point may leave a quotient that is an integer in    *)
(* exact arithmetic just below that integer, just above it, or on it.       *)

MaxDeviceSize == 6    \* largest device width and height
MaxModelWidth == 4    \* largest max_width of the scaled image

\* current_scale_factor as the fraction <<numerator, denominator>>
ScaleFactor(width, max_width) ==
    IF width > max_width THEN <<max_width, width>> ELSE <<1, 1>>

\* a faulty variant that multiplies by the scale factor
MultiplyByScale(num, den, scale) == <<num * scale[1], den * scale[2]>>

\* x_scaled / self.current_scale_factor, as a fraction
DivideByScale(num, den, scale) == <<num * scale[2], den * scale[1]>>

\* int(q) of the float the fraction q stands for; err is the sign of the
\* floating point error
IntOf(q, err) ==
    IF q[1] % q[2] = 0 /\ err < 0 /\ q[1] > 0 THEN (q[1] \div q[2]) - 1
    ELSE q[1] \div q[2]

\* the integer nearest to the fraction q, halves upwards
NearestTo(q) == (2 * q[1] + q[2]) \div (2 * q[2])

\* max(0, min(x_original, original - 1))
ClampToDevice(v, extent) == Max(0, Min(v, extent - 1))

\* _scale_coordinates_to_original on the coordinate num / den of an axis of
\* the given extent
ScaleToOriginal(num, den, width, max_width, extent, err) ==
    IF ScaleFactor(width, max_width) = <<1, 1>> THEN num \div den
    ELSE ClampToDevice(IntOf(DivideByScale(num, den, ScaleFactor(width, max_width)), err),
                       extent)

\* the place of device pixel p in the scaled image: p * scale, as a fraction
ToModelSpace(p, width, max_width) ==
    <<p * ScaleFactor(width, max_width)[1], ScaleFactor(width, max_width)[2]>>

\* the coordinate handed to _scale_coordinates_to_original: the image of a
\* device pixel, or an integer pixel of the scaled image
ScaledCoordinate(a) ==
    IF a.kind = "pixel" THEN ToModelSpace(a.v, a.width, a.max_width) ELSE <<a.v, 1>>

ScaleInputs ==
    {a \in [width : 1..MaxDeviceSize, max_width : 1..MaxModelWidth,
            extent : 1..MaxDeviceSize, kind : {"pixel", "model"},
            v : 0..(MaxDeviceSize - 1), err : {0 - 1, 0, 1}] :
        IF a.kind = "pixel" THEN a.v < a.extent
        ELSE a.v * a.width < a.extent * a.max_width}

ScaleInit == fn = "_scale_coordinates_to_original" /\ arg \in ScaleInputs /\ ret = <<>>

ScaleCall ==
    /\ fn = "_scale_coordinates_to_original"
    /\ ret = <<>>
    /\ ret' = <<ScaleToOriginal(ScaledCoordinate(arg)[1], ScaledCoordinate(arg)[2],
                                arg.width, arg.max_width, arg.extent, arg.err)>>
    /\ UNCHANGED <<fn, arg, loopVars, convVars, devVars, envVars, stabVars, mobVars>>

InitScale == LoopInit({<<"none", 0>>}) /\ StabIdle /\ MobileIdle /\ ScaleInit

SpecScale == InitScale /\ [][ScaleCall]_vars

-----------------------------------------------------------------------------
(* AgentLoop._parse_screenshot and OmniParserClient.parse.  arg holds the  *)
(* client (enabled: AgentLoop._omniparser is not None; available: "None"   *)
(* until checked, then "True" or "False"; loaded), the frame passed in,    *)
(* and what the environment of the call does: the first stage that fails,  *)
(* if any.                                                                 *)

ParseStages == {"no_deps", "no_dir", "no_weights", "load_fails", "detect_fails", "ok"}

\* an image: the frame it shows and whether OmniParser drew its boxes on it
Image(frame, annotated) == [frame |-> frame, annotated |-> annotated]

\* what a call ends in: a ParseResult, or an exception leaving the call
ParseResult(annotated_image, elems) ==
    [raised |-> FALSE, annotated_image |-> annotated_image, elements |-> elems]

ParseRaises == [raised |-> TRUE, annotated_image |-> <<>>, elements |-> <<>>]

Client(enabled, available, loaded) ==
    [enabled |-> enabled, available |-> available, loaded |-> loaded]

\* the available property: _check_available on first use, cached afterwards
Available(c, env) ==
    IF c.available = "None" THEN env # "no_deps" ELSE c.available = "True"

\* _load_models: <<the value returned, the client afterwards>>
LoadModels(c, env) ==
    IF c.loaded THEN <<TRUE, c>>
    ELSE IF ~Available(c, env) THEN <<FALSE, Client(c.enabled, "False", FALSE)>>
    ELSE IF env \in {"no_dir", "no_weights", "load_fails"}
    THEN <<FALSE, Client(c.enabled, "False", FALSE)>>
    ELSE <<TRUE, Client(c.enabled, "True", TRUE)>>

\* _run_detection: the annotated frame and its elements, or an exception
RunDetection(image, env) ==
    IF env = "detect_fails" THEN ParseRaises
    ELSE ParseResult(Image(image, TRUE), ElementsOf(image))

\* a faulty variant of parse without the except clause around the detection
ParseWithoutFallback(c, image, env) ==
    IF ~LoadModels(c, env)[1] THEN ParseResult(Image(image, FALSE), <<>>)
    ELSE RunDetection(image, env)

\* OmniParserClient.parse
Parse(c, image, env) ==
    IF ~LoadModels(c, env)[1] THEN ParseResult(Image(image, FALSE), <<>>)
    ELSE IF RunDetection(image, env).raised THEN ParseResult(Image(image, FALSE), <<>>)
    ELSE RunDetection(image, env)

\* AgentLoop._parse_screenshot: <<the result, the client afterwards>>
ParseScreenshot(c, image, env) ==
    IF c.enabled /\ Available(c, env)
    THEN <<Parse(c, image, env), LoadModels(c, env)[2]>>
    ELSE <<ParseResult(Image(image, FALSE), <<>>),
           IF c.enabled THEN Client(TRUE, "False", c.loaded) ELSE c>>

ParseInputs(clients) == [client : clients, frame : Frames, env : ParseStages]

ParseInit ==
    /\ fn = "_parse_screenshot"
    /\ arg \in ParseInputs({Client(e, "None", FALSE) : e \in BOOLEAN})
    /\ ret = <<>>

\* one call of _parse_screenshot; the next call's frame and environment are
\* chosen afresh
ParseCall ==
    /\ fn = "_parse_screenshot"
    /\ ret' = <<ParseScreenshot(arg.client, arg.frame, arg.env)[1]>>
    /\ arg' \in ParseInputs({ParseScreenshot(arg.client, arg.frame, arg.env)[2]})
    /\ UNCHANGED <<fn, loopVars, convVars, devVars, envVars, stabVars, mobVars>>

InitParse == LoopInit({<<"none", 0>>}) /\ StabIdle /\ MobileIdle /\ ParseInit

SpecParse == InitParse /\ [][ParseCall]_vars

\* the call is made with the parser disabled, unavailable, unable to load
\* its models, or failing during detection
ParserFails(a) ==
    \/ ~a.client.enabled
    \/ a.client.available = "False"
    \/ a.client.available = "None" /\ a.env = "no_deps"
    \/ ~a.client.loaded /\ a.env \in {"no_deps", "no_dir", "no_weights", "load_fails"}
    \/ a.env = "detect_fails"

-----------------------------------------------------------------------------
(* The foreground guard.  ret is the log of what the loop does at its      *)
(* capture sites, in order: device calls, sleeps and stabilized captures.  *)
(* arg is the profile: whether it configures an app_package.               *)

MaxCaptures == 3      \* stabilized captures of a logged session

Event(op, val) == [op |-> op, val |-> val]

\* get_foreground_package: None, the profile's package, or another one
ForegroundPackages == {"None", "target", "other"}

\* _check_foreground_app, given what get_foreground_package returns
CheckForegroundApp(app_package, fg) ==
    IF ~app_package THEN <<>>
    ELSE <<Event("get_foreground_package", fg)>>
         \o (IF fg # "None" /\ fg # "target"
             THEN <<Event("launch_app", "target"), Event("sleep", "2")>>
             ELSE <<>>)

\* a faulty variant that captures without the foreground check
SendInitialScreenshotUnchecked(app_package, fg) ==
    <<Event("_capture_stable_screenshot", "")>>

\* _send_initial_screenshot up to its capture
SendInitialScreenshot(app_package, fg) ==
    CheckForegroundApp(app_package, fg) \o <<Event("_capture_stable_screenshot", "")>>

\* the text branch of _run_step: a pause, then a fresh observation
TextObservation(app_package, fg) ==
    <<Event("sleep", "delay_seconds")>> \o SendInitialScreenshot(app_package, fg)

\* one tool call of _run_step from _execute_tool to the capture of its result
PostActionCapture(tool_name, app_package, fg) ==
    <<Event("_execute_tool", tool_name)>>
    \o (IF tool_name \notin {"wait", "game_over"}
        THEN <<Event("sleep", "delay_seconds")>> ELSE <<>>)
    \o CheckForegroundApp(app_package, fg)
    \o <<Event("_capture_stable_screenshot", "")>>

Captures(log) == Cardinality({i \in 1..Len(log) : log[i].op = "_capture_stable_screenshot"})

ForegroundInit == fn = "_check_foreground_app" /\ arg \in BOOLEAN /\ ret = <<>>

\* the initial observation of run()
FgInitialObservation ==
    /\ fn = "_check_foreground_app" /\ ret = <<>>
    /\ \E fg \in ForegroundPackages : ret' = SendInitialScreenshot(arg, fg)
    /\ UNCHANGED <<fn, arg, loopVars, convVars, devVars, envVars, stabVars, mobVars>>

\* a pass of the loop on a text response
FgTextObservation ==
    /\ fn = "_check_foreground_app" /\ ret # <<>> /\ Captures(ret) < MaxCaptures
    /\ \E fg \in ForegroundPackages : ret' = ret \o TextObservation(arg, fg)
    /\ UNCHANGED <<fn, arg, loopVars, convVars, devVars, envVars, stabVars, mobVars>>

\* a tool call of a pass of the loop on a tool_use response
FgPostActionCapture ==
    /\ fn = "_check_foreground_app" /\ ret # <<>> /\ Captures(ret) < MaxCaptures
    /\ \E fg \in ForegroundPackages, tool_name \in {"tap", "wait"} :
         ret' = ret \o PostActionCapture(tool_name, arg, fg)
    /\ UNCHANGED <<fn, arg, loopVars, convVars, devVars, envVars, stabVars, mobVars>>

InitForeground == LoopInit({<<"none", 0>>}) /\ StabIdle /\ MobileIdle /\ ForegroundInit

SpecForeground ==
    InitForeground /\ [][FgInitialObservation \/ FgTextObservation \/ FgPostActionCapture]_vars

\* the capture at position i of the log directly follows a foreground check
\* that found the target app in front or could not tell
CheckedInFront(log, i) ==
    /\ i > 1
    /\ log[i - 1].op = "get_foreground_package"
    /\ log[i - 1].val \in {"None", "target"}

\* the capture at position i of the log directly follows a foreground check
\* that found another app in front, a relaunch and the settle delay
CheckedRelaunched(log, i) ==
    /\ i > 3
    /\ log[i - 3].op = "get_foreground_package"
    /\ log[i - 3].val \notin {"None", "target"}
    /\ log[i - 2] = Event("launch_app", "target")
    /\ log[i - 1] = Event("sleep", "2")

\* C20: with an app package configured, every stabilized capture (initial,
\* after a text response, after an action) directly follows a foreground
\* check; when the check finds a known package other than the target, the
\* app is relaunched and the settle delay passes before the capture starts;
\* the app is relaunched in no other case
C20_CaptureFollowsForegroundCheck ==
    (fn = "_check_foreground_app" /\ arg) =>
        /\ \A i \in 1..Len(ret) :
             ret[i].op = "_capture_stable_screenshot" =>
                CheckedInFront(ret, i) \/ CheckedRelaunched(ret, i)
        /\ \A i \in 1..Len(ret) :
             ret[i].op = "launch_app" => i > 1 /\ ret[i - 1] = Event("get_foreground_package", "other")

\* three captures: the initial one with the app in front, one after a text
\* response with another app in front, one after a tap with the foreground
\* unknown
C20_Witness ==
    /\ fn = "_check_foreground_app" /\ arg
    /\ Captures(ret) = 3
    /\ ret[1] = Event("get_foreground_package", "target")
    /\ \E i \in 1..Len(ret) :
         /\ CheckedRelaunched(ret, i) /\ ret[i].op = "_capture_stable_screenshot"
         /\ i > 4 /\ ret[i - 4] = Event("sleep", "delay_seconds")
    /\ \E i \in 1..Len(ret) :
         /\ CheckedInFront(ret, i) /\ ret[i].op = "_capture_stable_screenshot"
         /\ ret[i - 1].val = "None"
         /\ i > 3 /\ ret[i - 3] = Event("_execute_tool", "tap")

-----------------------------------------------------------------------------
(* ConversationClient.reset as a function of the client and the summary.   *)
(* A summary is "None", the empty string or a text; token totals count in  *)
(* units of one request.                                                   *)

MaxTokens == 1        \* largest cumulative token total of a client handed to reset

ClientOf(msgs, count, cap, tokens_in, tokens_out) ==
    [messages |-> msgs, turn_count |-> count, system_prompt |-> "system_prompt",
     tools |-> "TOOL_DEFINITIONS", max_images |-> cap,
     total_input_tokens |-> tokens_in, total_output_tokens |-> tokens_out]

\* if summary: None and the empty string are both false
SummaryGiven(summary) == summary \notin {"None", ""}

\* a faulty variant that also clears the token totals
ResetWithTotals(c, summary) ==
    [c EXCEPT !.messages = ResetMessages(SummaryGiven(summary)), !.turn_count = 0,
              !.total_input_tokens = 0, !.total_output_tokens = 0]

\* reset(summary)
Reset(c, summary) ==
    [c EXCEPT !.messages = ResetMessages(SummaryGiven(summary)), !.turn_count = 0]

ResetInputs ==
    { <<ClientOf(msgs, count, cap, tin, tout), summary>> :
        msgs \in {c \in Conversations : Len(c) <= 2}, count \in 0..2, cap \in 1..MaxCap,
        tin \in 0..MaxTokens, tout \in 0..MaxTokens,
        summary \in {"None", "", "summary"} }

ResetInit == fn = "reset" /\ arg \in ResetInputs /\ ret = <<>>

ResetCall ==
    /\ fn = "reset"
    /\ ret = <<>>
    /\ ret' = <<Reset(arg[1], arg[2])>>
    /\ UNCHANGED <<fn, arg, loopVars, convVars, devVars, envVars, stabVars, mobVars>>

InitReset == LoopInit({<<"none", 0>>}) /\ StabIdle /\ MobileIdle /\ ResetInit

SpecReset == InitReset /\ [][ResetCall]_vars

\* C25: reset() leaves no turn and turn_count 0; reset(summary) leaves one
\* user turn that carries the summary, then one assistant turn (an empty
\* summary counts as none); in both cases the system prompt, the tools, the
\* image cap and the token totals are those of before
C25_ResetFrame ==
    (fn = "reset" /\ ret # <<>>) =>
        LET before == arg[1]
            after == ret[1]
        IN  /\ after.turn_count = 0
            /\ arg[2] \in {"None", ""} => after.messages = <<>>
            /\ arg[2] = "summary" =>
                 /\ Len(after.messages) = 2
                 /\ after.messages[1] = Turn("user", <<TextBlock("summary")>>)
                 /\ after.messages[2].role = "assistant"
                 /\ \A i \in 1..Len(after.messages[2].content) :
                      after.messages[2].content[i].type = "text"
            /\ after.system_prompt = before.system_prompt
            /\ after.tools = before.tools
            /\ after.max_images = before.max_images
            /\ after.total_input_tokens = before.total_input_tokens
            /\ after.total_output_tokens = before.total_output_tokens

\* a client with two turns, a count and token totals was reset with a summary
C25_Witness ==
    /\ fn = "reset" /\ ret # <<>>
    /\ arg[2] = "summary"
    /\ Len(arg[1].messages) = 2 /\ arg[1].messages[1] = ScreenshotTurn
    /\ arg[1].turn_count = 2
    /\ arg[1].total_input_tokens = 1 /\ arg[1].total_output_tokens = 1
    /\ ret[1].messages = ResetMessages(TRUE) /\ ret[1].total_input_tokens = 1

-----------------------------------------------------------------------------
(* VisionAnalyzer.analyze_screenshot from the planner's answer to the      *)
(* model-space points: the grid of the scaled image, the validation of the *)
(* cells of a JSON answer, the cells taken from an answer that is not      *)
(* JSON, and _grid_to_pixel_with_offset on each cell coordinate.           *)

MaxScaled == 6        \* largest width and height of a scaled image
MaxGridSize == 2      \* largest grid cell size of the model
SwipeMargin == 5      \* rows the default swipe keeps from the top and the bottom

\* grid_cells_x = new_width // grid_size
GridCells(extent, grid_size) == extent \div grid_size

\* a faulty variant that accepts the cell right of and below the grid
ValidateCellsInclusive(cells, max_x, max_y) ==
    \A i \in 1..Len(cells) :
        /\ 0 <= cells[i][1] /\ cells[i][1] <= max_x
        /\ 0 <= cells[i][2] /\ cells[i][2] <= max_y

\* the bounds test of _validate_action_plan on the cells of a TAP or SWIPE
ValidateCells(cells, max_x, max_y) ==
    \A i \in 1..Len(cells) :
        /\ 0 <= cells[i][1] /\ cells[i][1] < max_x
        /\ 0 <= cells[i][2] /\ cells[i][2] < max_y

\* _extract_action_from_text: a tap at the numbers found, clamped to the
\* grid, or the default swipe
ExtractCellsFromText(action, cells, max_x, max_y) ==
    IF action = "TAP"
    THEN <<<<Max(0, Min(cells[1][1], max_x - 1)), Max(0, Min(cells[1][2], max_y - 1))>>>>
    ELSE <<<<max_x \div 2, SwipeMargin>>, <<max_x \div 2, max_y - SwipeMargin>>>>

\* the cells analyze_screenshot hands to _convert_grid_to_device_coordinates
AcceptedCells(json, action, cells, max_x, max_y) ==
    IF json
    THEN IF ValidateCells(cells, max_x, max_y)
         THEN [accepted |-> TRUE, cells |-> cells]
         ELSE [accepted |-> FALSE, cells |-> <<>>]
    ELSE [accepted |-> TRUE, cells |-> ExtractCellsFromText(action, cells, max_x, max_y)]

\* the model-space points of the cells, in sub-pixel steps
CellPoints(cells, grid_size, offset) ==
    [i \in 1..Len(cells) |->
        <<GridToPixelWithOffset(cells[i][1], grid_size, offset),
          GridToPixelWithOffset(cells[i][2], grid_size, offset)>>]

\* analyze_screenshot on an answer
AnalyzeCells(a) ==
    LET max_x == GridCells(a.w, a.s)
        max_y == GridCells(a.h, a.s)
        acc == AcceptedCells(a.json, a.action, a.cells, max_x, max_y)
    IN  [accepted |-> acc.accepted, cells |-> acc.cells,
         points |-> CellPoints(acc.cells, a.s, a.offset)]

\* the cells an answer names: one for a TAP, two for a SWIPE; an answer that
\* is not JSON yields the numbers of a TAP, which are not negative
AnswerCells(json, action) ==
    LET range == IF json THEN (0 - 1)..(MaxCell + 1) ELSE 0..(MaxCell + 1)
    IN  IF action = "TAP" THEN {<<<<x, y>>>> : x \in range, y \in range}
        ELSE IF json THEN {<<<<x, y>>, <<x, y2>>>> : x \in range, y \in range, y2 \in range}
        ELSE {<<>>}

\* scaled images of at least one cell in each direction
CellInputs ==
    UNION { [w : s..MaxScaled, h : s..MaxScaled, s : {s}, json : {j}, action : {act},
             cells : AnswerCells(j, act),
             offset : {0 - MaxOffset(s), 0, MaxOffset(s)}]
            : <<s, j, act>> \in (1..MaxGridSize) \X BOOLEAN \X {"TAP", "SWIPE"} }

CellInit == fn = "analyze_screenshot" /\ arg \in CellInputs /\ ret = <<>>

CellCall ==
    /\ fn = "analyze_screenshot"
    /\ ret = <<>>
    /\ ret' = <<AnalyzeCells(arg)>>
    /\ UNCHANGED <<fn, arg, loopVars, convVars, devVars, envVars, stabVars, mobVars>>

\* execute_instruction on the plan analyze_screenshot returned: an ERROR
\* plan (an answer that was not accepted) ends the loop, any other plan is
\* executed and recorded
CellExecute ==
    /\ fn = "analyze_screenshot"
    /\ ret # <<>>
    /\ m_pc = "idle"
    /\ IF ~ret[1].accepted
       THEN /\ m_action' = "ERROR"
            /\ m_pc' = "summary"
            /\ UNCHANGED <<m_actions_taken, m_last_action, m_step_count, m_dev_count>>
       ELSE \E out \in ExecOutcomes(Plan(arg.action, ret[1].points)) :
              /\ m_action' = arg.action
              /\ m_pc' = "loop"
              /\ m_actions_taken' = <<Plan(arg.action, ret[1].points)>>
              /\ m_last_action' = <<Plan(arg.action, ret[1].points)>>
              /\ m_step_count' = m_step_count + 1
              /\ m_dev_count' = m_dev_count + out.dev
    /\ UNCHANGED <<m_max_steps, m_is_running, m_summary>>
    /\ UNCHANGED <<fnVars, loopVars, convVars, devVars, envVars, stabVars>>

InitCell == LoopInit({<<"none", 0>>}) /\ StabIdle /\ MobileIdle /\ CellInit

SpecCell == InitCell /\ [][CellCall \/ CellExecute]_vars

\* C26 as stated: the grid of a w x h image with cell size s has
\* floor(w/s) x floor(h/s) cells; a cell is accepted only if it lies in the
\* grid, and every model-space point produced lies left of floor(w/s)*s and
\* above floor(h/s)*s, so that no point falls outside the grid
C26_PointsInsideGrid ==
    (fn = "analyze_screenshot" /\ ret # <<>> /\ ret[1].accepted) =>
        LET max_x == arg.w \div arg.s
            max_y == arg.h \div arg.s
        IN  /\ \A i \in 1..Len(ret[1].cells) :
                 /\ 0 <= ret[1].cells[i][1] /\ ret[1].cells[i][1] < max_x
                 /\ 0 <= ret[1].cells[i][2] /\ ret[1].cells[i][2] < max_y
            /\ \A i \in 1..Len(ret[1].points) :
                 /\ 0 <= ret[1].points[i][1]
                 /\ ret[1].points[i][1] < max_x * arg.s * OffsetScale
                 /\ 0 <= ret[1].points[i][2]
                 /\ ret[1].points[i][2] < max_y * arg.s * OffsetScale

\* some cell of the list lies outside a grid of max_x by max_y cells
OutsideGrid(cells, max_x, max_y) ==
    \E i \in 1..Len(cells) :
        \/ cells[i][1] < 0 \/ cells[i][1] >= max_x
        \/ cells[i][2] < 0 \/ cells[i][2] >= max_y

\* C39: a JSON answer whose TAP or SWIPE cells lie outside the grid is not
\* accepted: analyze_screenshot returns the ERROR plan, without points, and
\* execute_instruction ends its loop on it with no device input and no
\* action recorded
C39_CellsOutsideGridStopWithoutInput ==
    (/\ fn = "analyze_screenshot" /\ ret # <<>>
     /\ arg.json
     /\ OutsideGrid(arg.cells, GridCells(arg.w, arg.s), GridCells(arg.h, arg.s)))
    => /\ ~ret[1].accepted
       /\ ret[1].points = <<>>
       /\ m_dev_count = 0
       /\ m_actions_taken = <<>>
       /\ m_pc \in {"idle", "summary"}
       /\ m_pc = "summary" => m_action = "ERROR"

\* C39 witness: a JSON swipe that ends one cell below the grid was answered
\* by the ERROR plan, and the loop is over
C39_Witness ==
    /\ fn = "analyze_screenshot" /\ ret # <<>>
    /\ arg.json /\ arg.action = "SWIPE"
    /\ ~OutsideGrid(<<arg.cells[1]>>, GridCells(arg.w, arg.s), GridCells(arg.h, arg.s))
    /\ arg.cells[2][2] = GridCells(arg.h, arg.s)
    /\ m_pc = "summary" /\ m_action = "ERROR"
    /\ m_dev_count = 0

-----------------------------------------------------------------------------
(* AgentLoop._last_screenshot_hash over the observations of a session.     *)
(* ret holds the attribute (<<>> is None), the frame observed last, the    *)
(* number of stabilized captures so far, the no-change count, and the      *)
(* comparison the last tool call made.                                     *)

MaxObservations == 6  \* stabilized captures of a session whose hashes are followed

HashState(hash, observed, captures, count, compared) ==
    [last_screenshot_hash |-> hash, observed |-> observed, captures |-> captures,
     no_change_count |-> count, compared |-> compared]

HashInit ==
    /\ fn = "_screenshot_hash" /\ arg = <<>>
    /\ ret = HashState(<<>>, <<>>, 0, 0, <<>>)

\* _send_initial_screenshot, from run() or from the text branch of
\* _run_step: the frame captured is sent to the planner
HashObservation ==
    /\ fn = "_screenshot_hash"
    /\ ret.captures < MaxObservations
    /\ \E frame \in Frames :
         ret' = HashState(ret.last_screenshot_hash, <<frame>>, ret.captures + 1,
                          ret.no_change_count, <<>>)
    /\ UNCHANGED <<fn, arg, loopVars, convVars, devVars, envVars, stabVars, mobVars>>

\* one tool call of _run_step: pre_hash, the capture and the comparison
HashToolCall ==
    /\ fn = "_screenshot_hash"
    /\ ret.observed # <<>>
    /\ ret.captures < MaxObservations
    /\ \E post \in Frames :
         LET pre_hash == ret.last_screenshot_hash
         IN  ret' = HashState(<<post>>, <<post>>, ret.captures + 1,
                              NoChangeCount(pre_hash, post, ret.no_change_count),
                              <<[pre_hash |-> pre_hash, before |-> ret.observed,
                                 post |-> post]>>)
    /\ UNCHANGED <<fn, arg, loopVars, convVars, devVars, envVars, stabVars, mobVars>>

InitHash == LoopInit({<<"none", 0>>}) /\ StabIdle /\ MobileIdle /\ HashInit

SpecHash == InitHash /\ [][HashObservation \/ HashToolCall]_vars

\* C29 as stated: the hash a tool call compares with its post-action frame
\* is the hash of the frame observed right before the action, for the first
\* tool call of a session and after a fresh observation too
C29_PreHashIsFrameBeforeAction ==
    (fn = "_screenshot_hash" /\ ret.compared # <<>>) =>
        ret.compared[1].pre_hash = ret.compared[1].before

-----------------------------------------------------------------------------
(* AgentLoop.run pass by pass, for termination.  The conversation is left  *)
(* out: only what the while condition and the except clauses read is kept, *)
(* and tool_use ids are the positions in the batch.  A fresh observation   *)
(* is followed in two steps, the request and its answer.                   *)

\* the responses of the planner as the while loop tells them apart
LiveResponses ==
    TextResponses
    \cup { Response("tool_use", [i \in 1..n |-> ToolCall(i, "tap", <<1, 2>>, "")], "")
           : n \in 1..MaxBatch }
    \cup { Response("tool_use", <<ToolCall(1, "game_over", <<>>, "")>>, "") }

\* run() up to the loop: connect and _send_initial_screenshot
LiveStart ==
    /\ scenario = "live"
    /\ pc = "start"
    /\ running' = TRUE
    /\ \/ /\ \E e \in {"DeviceError", "VisionError"} : Raise(e)
          /\ UNCHANGED last_response
       \/ /\ pc' = "loop" /\ exc' = exc /\ handled' = handled
          /\ last_response' \in LiveResponses
    /\ UNCHANGED <<step, consecutive_errors, no_change_count, last_screenshot_hash,
                   elements, batch_idx, tool_results>>
    /\ UNCHANGED <<convVars, devVars, envVars, stabVars, mobVars, fnVars>>

\* _run_step on a response without tool calls: "game over" clears _running,
\* any other text goes on to _send_initial_screenshot
LiveText ==
    /\ scenario = "live"
    /\ pc = "loop"
    /\ LoopCondition
    /\ last_response.stop_reason # "tool_use"
    /\ IF GameOverText(last_response.text)
       THEN running' = FALSE /\ StepEnd("ok", TRUE, "")
       ELSE /\ running' = running /\ pc' = "observe"
            /\ UNCHANGED <<consecutive_errors, exc, handled>>
    /\ UNCHANGED <<step, no_change_count, last_screenshot_hash, elements, last_response,
                   batch_idx, tool_results>>
    /\ UNCHANGED <<convVars, devVars, envVars, stabVars, mobVars, fnVars>>

\* the fresh observation ends: a failed capture, a failed request, or the
\* next response of the planner
LiveObserved ==
    /\ pc = "observe"
    /\ \/ /\ \E connected \in BOOLEAN : StepEnd("DeviceError", connected, "")
          /\ UNCHANGED last_response
       \/ /\ StepEnd("VisionError", TRUE, "API error")
          /\ UNCHANGED last_response
       \/ /\ StepEnd("ok", TRUE, "")
          /\ last_response' \in LiveResponses
    /\ UNCHANGED <<step, no_change_count, last_screenshot_hash, running, elements,
                   batch_idx, tool_results>>
    /\ UNCHANGED <<convVars, devVars, envVars, stabVars, mobVars, fnVars>>

\* _run_step on a tool_use response, as one step: the for loop reaches call
\* k, which declares the end, fails in its capture, or is the last one the
\* loop processes before the results are submitted
LiveBatch ==
    /\ scenario = "live"
    /\ pc = "loop"
    /\ LoopCondition
    /\ last_response.stop_reason = "tool_use"
    /\ \E k \in 1..Min(Len(last_response.tool_calls), max_steps - step) :
         /\ step' = step + k
         /\ IF last_response.tool_calls[k].name = "game_over"
            THEN /\ running' = FALSE
                 /\ StepEnd("ok", TRUE, "")
                 /\ UNCHANGED last_response
            ELSE /\ running' = running
                 /\ \/ /\ \E connected \in BOOLEAN : StepEnd("DeviceError", connected, "")
                       /\ UNCHANGED last_response
                    \/ /\ k = Min(Len(last_response.tool_calls), max_steps - step)
                       /\ \/ /\ StepEnd("VisionError", TRUE, "API error")
                             /\ UNCHANGED last_response
                          \/ /\ StepEnd("ok", TRUE, "")
                             /\ last_response' \in LiveResponses
    /\ UNCHANGED <<no_change_count, last_screenshot_hash, elements, batch_idx, tool_results>>
    /\ UNCHANGED <<convVars, devVars, envVars, stabVars, mobVars, fnVars>>

\* the step budgets of the sessions followed for termination
LiveSessions == {<<"live", n>> : n \in 1..MaxSteps}

InitLive == LoopInit(LiveSessions) /\ StabIdle /\ MobileIdle /\ FnIdle

LiveNext == LiveStart \/ LiveText \/ LiveObserved \/ LiveBatch \/ LoopExit

\* every pass that can be taken is taken: run() is a sequential program
SpecLive == InitLive /\ [][LiveNext]_vars /\ WF_vars(LiveNext)

\* C31 as stated: for every planner and device behaviour run() eventually
\* terminates
C31_RunTerminates == <>(pc \in {"done", "raised"})

-----------------------------------------------------------------------------
(* AgentLoop._screenshot_hash on images, and two runs side by side.  An    *)
(* image is the sequence of its pixel rows, top row first.  The images of  *)
(* the model have fewer rows than the 16 x 16 thumbnail, so the thumbnail  *)
(* and its hash tell two cropped images apart exactly when they differ.    *)
(* ret holds the two runs a and b, the pair of images captured last, and   *)
(* the number of captures.                                                 *)

MinHeight == 10       \* smallest image height, in rows
MaxHeight == 11       \* largest image height, in rows
TailRows == 2         \* rows at the bottom of an image that vary freely
MaxPairs == 6         \* captures of a run that are followed

\* int(h * 0.9): the rows the crop keeps
CroppedHeight(h) == (h * 9) \div 10

\* a faulty variant that hashes the whole image
ScreenshotHashUncropped(image) == image

\* _screenshot_hash: the hash of the cropped image
ScreenshotHash(image) == SubSeq(image, 1, CroppedHeight(Len(image)))

\* the images the device can show: a scene above, any bottom rows
Images(h) ==
    { [i \in 1..h |-> IF i <= h - TailRows THEN scene ELSE tail[i - (h - TailRows)]]
      : scene \in Frames, tail \in [1..TailRows -> 0..1] }

\* row i (from 1) lies within the bottom 10% of the height
InBottomTenth(i, h) == 10 * (i - 1) >= 9 * h

DifferOnlyInBottomTenth(a, b) ==
    /\ Len(a) = Len(b)
    /\ \A i \in 1..Len(a) : a[i] # b[i] => InBottomTenth(i, Len(a))

\* what one run keeps: prev_hash, stable_count and whether the last
\* _capture_stable_screenshot returned a stable frame; _last_screenshot_hash,
\* _no_change_count and whether the last tool result carries the warning
CropRun(prev, stable, returned, last, count, warned) ==
    [prev_hash |-> prev, stable_count |-> stable, returned |-> returned,
     last_screenshot_hash |-> last, no_change_count |-> count, warned |-> warned]

\* one pass of the while loop of _capture_stable_screenshot in one run
CropPollRun(run, image) ==
    LET current == <<ScreenshotHash(image)>>
        count == IF current = run.prev_hash THEN run.stable_count + 1 ELSE 0
    IN  IF run.returned /\ run.prev_hash # <<>> THEN run
        ELSE [run EXCEPT !.stable_count = count,
                         !.returned = (current = run.prev_hash /\ IsStable(count)),
                         !.prev_hash = current]

\* the screen-change detection of _run_step in one run, on the frame
\* _capture_stable_screenshot returned (stable, or the latest at the timeout)
CropDetectRun(run, image) ==
    LET post == <<ScreenshotHash(image)>>
        same == run.last_screenshot_hash # <<>> /\ post = run.last_screenshot_hash
    IN  [run EXCEPT !.no_change_count = IF same THEN run.no_change_count + 1 ELSE 0,
                    !.warned = same,
                    !.last_screenshot_hash = post,
                    !.prev_hash = <<>>, !.stable_count = 0]

\* the pairs of images two runs can capture at the same moment
CropPairs(h) == {p \in Images(h) \X Images(h) : DifferOnlyInBottomTenth(p[1], p[2])}

CropInit ==
    /\ fn = "_screenshot_hash on two runs"
    /\ arg \in MinHeight..MaxHeight
    /\ ret = [a |-> CropRun(<<>>, 0, FALSE, <<>>, 0, FALSE),
              b |-> CropRun(<<>>, 0, FALSE, <<>>, 0, FALSE),
              pair |-> <<>>, captures |-> 0]

\* both runs poll once
CropPoll ==
    /\ fn = "_screenshot_hash on two runs"
    /\ ret.captures < MaxPairs
    /\ \E run \in {ret.a, ret.b} : ~run.returned \/ run.prev_hash = <<>>
    /\ \E p \in CropPairs(arg) :
         ret' = [a |-> CropPollRun(ret.a, p[1]), b |-> CropPollRun(ret.b, p[2]),
                 pair |-> p, captures |-> ret.captures + 1]
    /\ UNCHANGED <<fn, arg, loopVars, convVars, devVars, envVars, stabVars, mobVars>>

\* both runs compare the frame after a tool call with the stored hash
CropToolCall ==
    /\ fn = "_screenshot_hash on two runs"
    /\ ret.pair # <<>>
    /\ \E run \in {ret.a, ret.b} : run.prev_hash # <<>>
    /\ ret' = [ret EXCEPT !.a = CropDetectRun(ret.a, ret.pair[1]),
                          !.b = CropDetectRun(ret.b, ret.pair[2])]
    /\ UNCHANGED <<fn, arg, loopVars, convVars, devVars, envVars, stabVars, mobVars>>

InitCrop == LoopInit({<<"none", 0>>}) /\ StabIdle /\ MobileIdle /\ CropInit

SpecCrop == InitCrop /\ [][CropPoll \/ CropToolCall]_vars

\* C34: two frames that differ only within the bottom 10% of their height
\* have equal hashes, so two runs fed such frames keep the same
\* stabilization and change-detection state and take the same decisions
C34_BottomTenthIgnored ==
    fn = "_screenshot_hash on two runs" =>
        /\ ret.pair # <<>> => ScreenshotHash(ret.pair[1]) = ScreenshotHash(ret.pair[2])
        /\ ret.a = ret.b

\* the two runs captured frames that differ, both returned a stable frame
\* after three polls, and both then reported the screen as unchanged
C34_Witness ==
    /\ fn = "_screenshot_hash on two runs"
    /\ ret.pair # <<>> /\ ret.pair[1] # ret.pair[2]
    /\ ret.captures = MaxPairs
    /\ ret.a.returned /\ ret.b.returned
    /\ ret.a.warned /\ ret.b.warned

-----------------------------------------------------------------------------
(* mobile_agent.adb_controller.ADBController.tap and swipe.  The           *)
(* screenshot_quality is the fraction quality / QualitySteps; err is the   *)
(* sign of the floating point error of x * (1 / screenshot_quality).       *)

QualitySteps == 4     \* screenshot_quality is a multiple of 1 / QualitySteps
MaxShot == 2          \* largest screenshot coordinate handed to tap and swipe
MaxAdbSize == 3       \* largest device width and height

\* int(x * scale_factor): int() truncates towards zero
AdbScaled(v, quality, err) ==
    IF v < 0 THEN 0 - IntOf(<<(0 - v) * QualitySteps, quality>>, 0)
    ELSE IntOf(<<v * QualitySteps, quality>>, err)

\* a faulty variant that flips the axis
AdbToDeviceFlipped(v, quality, extent, err) ==
    ClampToDevice(extent - 1 - AdbScaled(v, quality, err), extent)

\* max(0, min(int(x * scale_factor), device_extent - 1))
AdbToDevice(v, quality, extent, err) ==
    ClampToDevice(AdbScaled(v, quality, err), extent)

\* the extent of the axis of coordinate i: x, y, x, y
AdbExtent(a, i) == IF i % 2 = 1 THEN a.width ELSE a.height

\* the coordinates of the input tap or swipe sends to the device
AdbInput(a) ==
    [i \in 1..Len(a.coords) |->
        AdbToDevice(a.coords[i], a.quality, AdbExtent(a, i), a.errs[i])]

\* calls of tap (two coordinates) and swipe (four); the floating point
\* error is a function of the value, and present only for a quotient that
\* is a whole number
AdbInputs ==
    UNION { {a \in [op : {IF n = 2 THEN "tap" ELSE "swipe"},
                    quality : 1..QualitySteps,
                    width : 1..MaxAdbSize, height : 1..MaxAdbSize,
                    coords : [1..n -> (0 - 1)..MaxShot],
                    errs : [1..n -> {0 - 1, 0}]] :
               /\ \A i \in 1..n :
                    a.errs[i] < 0 =>
                        a.coords[i] > 0 /\ (a.coords[i] * QualitySteps) % a.quality = 0
               /\ \A i, j \in 1..n : a.coords[i] = a.coords[j] => a.errs[i] = a.errs[j]}
            : n \in {2, 4} }

AdbInit == fn = "ADBController" /\ arg \in AdbInputs /\ ret = <<>>

AdbCall ==
    /\ fn = "ADBController"
    /\ ret = <<>>
    /\ ret' = <<AdbInput(arg)>>
    /\ UNCHANGED <<fn, arg, loopVars, convVars, devVars, envVars, stabVars, mobVars>>

InitAdb == LoopInit({<<"none", 0>>}) /\ StabIdle /\ MobileIdle /\ AdbInit

SpecAdb == InitAdb /\ [][AdbCall]_vars

-----------------------------------------------------------------------------
(* mobile_agent.vision_analyzer.VisionAnalyzer._build_openai_messages over *)
(* the calls of a VisionAnalyzer.  A message is its role, the call that    *)
(* wrote it, and whether it carries an image.  ret holds openai_messages,  *)
(* the messages of the last request, the number of calls, and whether a    *)
(* request is in flight.                                                   *)

MaxBuilds == 6        \* calls of _build_openai_messages that are followed
MaxRecentImages == 2  \* max_recent_images
HistoryCap == 20      \* messages kept in openai_messages

Msg(role, call, image) == [role |-> role, call |-> call, image |-> image]

\* recent_image_count when the loop reaches message j of the history
UsersBefore(history, j) == Cardinality({i \in 1..(j - 1) : history[i].role = "user"})

\* the messages of the request: system prompt, the history with the images
\* the loop keeps, the current message
BuildOpenaiMessages(history, current) ==
    <<Msg("system", 0, FALSE)>>
    \o [j \in 1..Len(history) |->
           IF history[j].role = "user" /\ UsersBefore(history, j) >= MaxRecentImages
           THEN Msg("user", history[j].call, FALSE)
           ELSE history[j]]
    \o <<current>>

\* self.openai_messages[-20:]
KeepLast(history, cap) ==
    IF Len(history) > cap THEN SubSeq(history, Len(history) - cap + 1, Len(history))
    ELSE history

BuildState(history, sent, calls, pending) ==
    [openai_messages |-> history, sent |-> sent, calls |-> calls, pending |-> pending]

BuildInit ==
    /\ fn = "_build_openai_messages" /\ arg = <<>>
    /\ ret = BuildState(<<>>, <<>>, 0, FALSE)

\* analyze_screenshot builds the request of the next step
BuildCall ==
    /\ fn = "_build_openai_messages"
    /\ ~ret.pending /\ ret.calls < MaxBuilds
    /\ LET current == Msg("user", ret.calls + 1, TRUE)
       IN  ret' = BuildState(KeepLast(Append(ret.openai_messages, current), HistoryCap),
                             BuildOpenaiMessages(ret.openai_messages, current),
                             ret.calls + 1, TRUE)
    /\ UNCHANGED <<fn, arg, loopVars, convVars, devVars, envVars, stabVars, mobVars>>

\* the planner answers: the response text is stored as an assistant message
BuildAnswered ==
    /\ fn = "_build_openai_messages"
    /\ ret.pending
    /\ ret' = [ret EXCEPT !.pending = FALSE,
                          !.openai_messages = Append(@, Msg("assistant", ret.calls, FALSE))]
    /\ UNCHANGED <<fn, arg, loopVars, convVars, devVars, envVars, stabVars, mobVars>>

\* the request raises: analyze_screenshot returns an ERROR plan and stores
\* no assistant message
BuildFailed ==
    /\ fn = "_build_openai_messages"
    /\ ret.pending
    /\ ret' = [ret EXCEPT !.pending = FALSE]
    /\ UNCHANGED <<fn, arg, loopVars, convVars, devVars, envVars, stabVars, mobVars>>

\* clear_history, at the start of an instruction
BuildClearHistory ==
    /\ fn = "_build_openai_messages"
    /\ ~ret.pending /\ ret.openai_messages # <<>>
    /\ ret' = [ret EXCEPT !.openai_messages = <<>>]
    /\ UNCHANGED <<fn, arg, loopVars, convVars, devVars, envVars, stabVars, mobVars>>

InitBuild == LoopInit({<<"none", 0>>}) /\ StabIdle /\ MobileIdle /\ BuildInit

SpecBuild ==
    InitBuild /\ [][BuildCall \/ BuildAnswered \/ BuildFailed \/ BuildClearHistory]_vars

\* C38 as stated: a request carries images for the current screenshot and
\* for the user messages of the last 2 previous steps, and every older user
\* message of the history as text only
C38_ImagesForLastTwoSteps ==
    fn = "_build_openai_messages" =>
        LET sent == ret.sent
            users == {i \in 1..Len(sent) : sent[i].role = "user"}
        IN  \A i \in users :
              sent[i].image <=> Cardinality({j \in users : j > i}) <= MaxRecentImages

====
